---- MODULE Spec2Model ----
(***************************************************************************)
(* Model of fork-choice-network: the fork-choice tree                      *)
(* (common/src/fork_choice_tree.rs) and the per-account mempool            *)
(* (common/src/mempool.rs).                                                *)
(*                                                                         *)
(* Specifications:                                                         *)
(*   Spec         the tree as the program builds it: ForkChoiceTree::new,  *)
(*                then propose_block / finalize_block_frame calls.         *)
(*   SpecFinalize finalize_block_frame applied to every well-formed tree   *)
(*                of at most MaxTreeNodes nodes.                           *)
(*   SpecPool     the mempool under add / retain / next.                   *)
(***************************************************************************)
EXTENDS Integers, Sequences, FiniteSets, TLC

\* ------------------------------------------------------------------ bounds
\* Digests are 0..MaxDigest; 0 is the all-zero digest [0; 32].
MaxDigest == 4
\* Heights offered to propose_block are 0..MaxHeight.
MaxHeight == 2
\* finalize_block_frame is offered while finalized_frame < MaxFrame.
MaxFrame == 4
\* SpecFinalize: trees over the digests 1..MaxTreeNodes, scores 0..MaxScore.
MaxTreeNodes == 4
MaxScore == 1
\* Oracle executor: execute_state_transition is given at most MaxBatch
\* transactions in all, with nonces 0..MaxBuilderNonce.
MaxBatch == 2
MaxBuilderNonce == 1

\* Swarm executor: u64 scaled to 0..U64_MAX; at most MaxCommits commits.
U64_MAX == 3
MaxCommits == 2

\* Oracle actor: at most MaxBlocks blocks are minted.
MaxBlocks == 2

\* Swarm codec: the u64 fields encoded are the multiples of 85 up to
\* 85 * MaxField, the last of them two bytes wide.
MaxField == 4

\* Mempool: nonces 0..MaxNonce (one nonce more than MAX_BACKLOG admits); add
\* is offered while it leaves at most MaxQueue keys in queue.
MaxNonce == 3
MaxQueue == 3
\* mempool.rs sets MAX_BACKLOG = 16 and MAX_TRANSACTIONS = 32_768; the model
\* runs the same code with the two caps scaled down.
MAX_BACKLOG == 3
MAX_TRANSACTIONS == 4

ZeroDigest == 0
\* the digest that stands for Config.genesis_block_hash
GenesisDigest == 1
Digests == 0..MaxDigest
Heights == 0..MaxHeight

\* --------------------------------------------------------------- state
VARIABLES
    genesis,          \* the genesis_block_hash given to ForkChoiceTree::new
    nodes,            \* ForkChoiceTree.nodes : Digest -> ForkChoiceTreeNode
    finalized_frame,  \* ForkChoiceTree.finalized_frame
    finalized_head,   \* ForkChoiceTree.finalized_head
    halted,           \* "no" | "panic" | "endless": the last call did not return
    call,             \* the last call made on the tree
    result,           \* what the last call returned
    s1                \* how far the calls so far follow scenario S1 (-1: not)

treeVars == <<genesis, nodes, finalized_frame, finalized_head, halted, call, result, s1>>

VARIABLES
    transactions,     \* Mempool.transactions : digest -> transaction
    tracked,          \* Mempool.tracked : public key -> (nonce -> digest)
    queue,            \* Mempool.queue
    poolCall,         \* "new" | "add" | "retain" | "next": the last call on the mempool
    poolRet,          \* what the last next() returned
    poolPath,         \* the branch the last call on the mempool took
    drawn,            \* per public key, the last nonce next() returned since the last add (-1: none)
    window            \* the draws of the current run of next() calls

poolVars == <<transactions, tracked, queue, poolCall, poolPath, poolRet, drawn, window>>

VARIABLES
    builders,                           \* State.builders : public key -> BuilderAccount
    finalize_frame_block_proposal_min,  \* State.finalize_frame_block_proposal_min
    frame_block_proposal_count,         \* State.frame_block_proposal_count
    processed_nonces,                   \* StateTransitionResult under construction
    invalid_txs,                        \* StateTransitionResult under construction
    generated_events,                   \* StateTransitionResult under construction
    taken,                              \* transactions the loop has taken so far, over all calls
    applied                             \* the last transaction taken and the calls made for it

oracleVars == <<builders, finalize_frame_block_proposal_min, frame_block_proposal_count,
                processed_nonces, invalid_txs, generated_events, taken, applied>>

VARIABLES
    adb,                    \* swarm State.adb: key -> Value, as committed
    adb_metadata,           \* the metadata of the last adb.commit
    adb_op_count,           \* adb.op_count()
    overflow_checks,        \* the build: arithmetic overflow panics (TRUE) or wraps (FALSE)
    layer,                  \* "none", or the call of execute_state_transition in progress:
                            \* its height, state_start_op and StateLayer.pending
    layer_processed_nonces, \* StateLayer::execute, processed_nonces so far
    layer_invalid_txs,      \* StateLayer::execute, invalid_txs so far
    swarm_taken,            \* transactions StateLayer::execute has taken so far, over all calls
    swarm_halted,           \* "no" | "panic": a call on the swarm state did not return
    swarm_call,             \* the last step of execute_state_transition and what it was given
    swarm_result            \* the StateTransitionResult last returned

swarmVars == <<adb, adb_metadata, adb_op_count, overflow_checks, layer,
               layer_processed_nonces, layer_invalid_txs, swarm_taken, swarm_halted,
               swarm_call, swarm_result>>

VARIABLES
    block_number,           \* oracle Actor.block_number
    sent,                   \* the messages Actor has broadcast, in order
    actor_halted,           \* "no" | "todo" | "panic": Actor::run has ended
    actor_call              \* the last turn of the loop of Actor::run

actorVars == <<block_number, sent, actor_halted, actor_call>>

VARIABLES
    codec_value,            \* a swarm Value
    codec_bytes,            \* what Write made of it, or <<>> before
    codec_read              \* what Read made of the bytes

codecVars == <<codec_value, codec_bytes, codec_read>>

\* --------------------------------------------------- fork_choice_tree.rs
ForkChoiceTreeNode(frame, height, parent, hash) ==
    [block_frame |-> frame, block_height |-> height, block_parent |-> parent,
     block_hash |-> hash, score |-> 0, children |-> <<>>]

Tree(ns, ff, fh) == [nodes |-> ns, finalized_frame |-> ff, finalized_head |-> fh]

\* ForkChoiceTree::new
NewTree(genesis_block_hash) ==
    Tree((genesis_block_hash :> ForkChoiceTreeNode(0, 0, ZeroDigest, genesis_block_hash)),
         1, genesis_block_hash)

Ok(val) == [kind |-> "Ok", val |-> val]
Err(kind, val) == [kind |-> kind, val |-> val]
\* a call that never returned: node()/node_mut() "node not found", or a walk
\* that never stops
NoReturn(how) == [kind |-> how, val |-> <<>>]

\* The loop of increment_node_score. visited is not program state: a walk
\* that comes back to a node it has incremented repeats for ever, because the
\* exit test reads block_frame only.
RECURSIVE IncrementWalk(_, _, _, _)
IncrementWalk(ns, ff, cur, visited) ==
    IF cur \notin DOMAIN ns THEN [nodes |-> ns, how |-> "panic"]
    ELSE IF ns[cur].block_frame = ff THEN [nodes |-> ns, how |-> "no"]
    ELSE IF cur \in visited THEN [nodes |-> ns, how |-> "endless"]
    ELSE IncrementWalk([ns EXCEPT ![cur].score = @ + 1], ff,
                       ns[cur].block_parent, visited \cup {cur})

increment_node_score(t, block_hash) ==
    IncrementWalk(t.nodes, t.finalized_frame, block_hash, {})

\* create_node with the height compared to the parent's own height.
create_node_same_height(t, block_height, block_parent, block_hash) ==
    IF block_parent \notin DOMAIN t.nodes
    THEN [tree |-> t, result |-> Err("InvalidBlockParentHash", <<block_parent>>), how |-> "no"]
    ELSE IF block_height # t.nodes[block_parent].block_height
    THEN [tree |-> t, result |-> Err("InvalidBlockHeight", <<block_height>>), how |-> "no"]
    ELSE
      LET pushed == [t.nodes EXCEPT ![block_parent].children = Append(@, block_hash)]
          node == ForkChoiceTreeNode(t.finalized_frame + 1, block_height,
                                     block_parent, block_hash)
          inserted == [h \in DOMAIN pushed \cup {block_hash} |->
                          IF h = block_hash THEN node ELSE pushed[h]]
          walk == increment_node_score([t EXCEPT !.nodes = inserted], block_hash)
      IN [tree |-> [t EXCEPT !.nodes = walk.nodes],
          result |-> IF walk.how = "no" THEN Ok(<<>>) ELSE NoReturn(walk.how),
          how |-> walk.how]

\* create_node that pushes the child before it checks the height.
create_node_push_first(t, block_height, block_parent, block_hash) ==
    IF block_parent \notin DOMAIN t.nodes
    THEN [tree |-> t, result |-> Err("InvalidBlockParentHash", <<block_parent>>), how |-> "no"]
    ELSE
      LET pushed == [t.nodes EXCEPT ![block_parent].children = Append(@, block_hash)]
          node == ForkChoiceTreeNode(t.finalized_frame + 1, block_height,
                                     block_parent, block_hash)
          inserted == [h \in DOMAIN pushed \cup {block_hash} |->
                          IF h = block_hash THEN node ELSE pushed[h]]
          walk == increment_node_score([t EXCEPT !.nodes = inserted], block_hash)
      IN IF block_height # t.nodes[block_parent].block_height + 1
         THEN [tree |-> [t EXCEPT !.nodes = pushed],
               result |-> Err("InvalidBlockHeight", <<block_height>>), how |-> "no"]
         ELSE [tree |-> [t EXCEPT !.nodes = walk.nodes],
               result |-> IF walk.how = "no" THEN Ok(<<>>) ELSE NoReturn(walk.how),
               how |-> walk.how]

\* create_node that appends the child to the parent's children twice.
create_node_push_twice(t, block_height, block_parent, block_hash) ==
    IF block_parent \notin DOMAIN t.nodes
    THEN [tree |-> t, result |-> Err("InvalidBlockParentHash", <<block_parent>>), how |-> "no"]
    ELSE IF block_height # t.nodes[block_parent].block_height + 1
    THEN [tree |-> t, result |-> Err("InvalidBlockHeight", <<block_height>>), how |-> "no"]
    ELSE
      LET pushed == [t.nodes EXCEPT ![block_parent].children =
                                        Append(Append(@, block_hash), block_hash)]
          node == ForkChoiceTreeNode(t.finalized_frame + 1, block_height,
                                     block_parent, block_hash)
          inserted == [h \in DOMAIN pushed \cup {block_hash} |->
                          IF h = block_hash THEN node ELSE pushed[h]]
          walk == increment_node_score([t EXCEPT !.nodes = inserted], block_hash)
      IN [tree |-> [t EXCEPT !.nodes = walk.nodes],
          result |-> IF walk.how = "no" THEN Ok(<<>>) ELSE NoReturn(walk.how),
          how |-> walk.how]

\* create_node: [tree, result, how]
create_node(t, block_height, block_parent, block_hash) ==
    IF block_parent \notin DOMAIN t.nodes
    THEN [tree |-> t, result |-> Err("InvalidBlockParentHash", <<block_parent>>), how |-> "no"]
    ELSE IF block_height # t.nodes[block_parent].block_height + 1
    THEN [tree |-> t, result |-> Err("InvalidBlockHeight", <<block_height>>), how |-> "no"]
    ELSE
      LET pushed == [t.nodes EXCEPT ![block_parent].children = Append(@, block_hash)]
          node == ForkChoiceTreeNode(t.finalized_frame + 1, block_height,
                                     block_parent, block_hash)
          inserted == [h \in DOMAIN pushed \cup {block_hash} |->
                          IF h = block_hash THEN node ELSE pushed[h]]
          walk == increment_node_score([t EXCEPT !.nodes = inserted], block_hash)
      IN [tree |-> [t EXCEPT !.nodes = walk.nodes],
          result |-> IF walk.how = "no" THEN Ok(<<>>) ELSE NoReturn(walk.how),
          how |-> walk.how]

propose_block(t, height, parent, hash) ==
    IF hash \notin DOMAIN t.nodes
    THEN create_node(t, height, parent, hash)
    ELSE LET walk == increment_node_score(t, hash)
         IN [tree |-> [t EXCEPT !.nodes = walk.nodes],
             result |-> IF walk.how = "no" THEN Ok(<<>>) ELSE NoReturn(walk.how),
             how |-> walk.how]

\* max_by with the comparison reversed: the lightest child.
RECURSIVE MinByScore(_, _, _, _)
MinByScore(ns, children, i, best) ==
    IF i > Len(children) THEN best
    ELSE MinByScore(ns, children, i + 1,
                    IF ns[children[i]].score <= ns[best].score THEN children[i] ELSE best)

\* Iterator::max_by over the children: the last of the maximal elements.
RECURSIVE MaxByScore(_, _, _, _)
MaxByScore(ns, children, i, best) ==
    IF i > Len(children) THEN best
    ELSE MaxByScore(ns, children, i + 1,
                    IF ns[children[i]].score >= ns[best].score THEN children[i] ELSE best)

\* The loop of finalize_block_frame.
RECURSIVE FinalizeDescend(_, _)
FinalizeDescend(t, cur) ==
    IF cur \notin DOMAIN t.nodes
    THEN [tree |-> t, result |-> NoReturn("panic"), how |-> "panic"]
    ELSE
      LET node == t.nodes[cur] IN
      IF node.children = <<>>
      THEN [tree |-> [t EXCEPT !.finalized_frame = @ + 1, !.finalized_head = cur],
            result |-> Ok(<<t.finalized_frame + 1, cur>>), how |-> "no"]
      ELSE IF Len(node.children) = 1
      THEN FinalizeDescend(t, node.children[1])
      ELSE IF \E i \in 1..Len(node.children) : node.children[i] \notin DOMAIN t.nodes
      THEN [tree |-> t, result |-> NoReturn("panic"), how |-> "panic"]
      ELSE
        LET heaviest == MaxByScore(t.nodes, node.children, 2, node.children[1])
            same == {i \in 1..Len(node.children) :
                        t.nodes[node.children[i]].score = t.nodes[heaviest].score}
        IN IF Cardinality(same) > 1
           THEN [tree |-> t, result |-> Err("UnsolvableFork", <<cur>>), how |-> "no"]
           ELSE FinalizeDescend(t, t.nodes[heaviest].block_hash)

\* finalize_block_frame that starts its descent at the root instead of
\* self.finalized_head.
finalize_block_frame_from_root(t) ==
    FinalizeDescend(t, CHOOSE h \in DOMAIN t.nodes : t.nodes[h].block_height = 0)

\* finalize_block_frame that keeps its position in self.finalized_head: on
\* UnsolvableFork the head is left at the tied node.
finalize_block_frame_tracking_head(t) ==
    LET out == FinalizeDescend(t, t.finalized_head)
    IN IF out.result.kind = "UnsolvableFork"
       THEN [out EXCEPT !.tree.finalized_head = out.result.val[1]]
       ELSE out

finalize_block_frame(t) == FinalizeDescend(t, t.finalized_head)

\* ------------------------------------------------------------- mempool.rs
PublicKeys == {"P", "Q"}
Instructions == {"i1", "i2"}
Nonces == 0..MaxNonce
\* the second instruction is offered at nonce 0 only: one slot at which two
\* transactions with different digests compete
Transactions ==
    {tx \in [nonce : Nonces, instruction : Instructions, public_key : PublicKeys] :
        tx.instruction = "i1" \/ tx.nonce = 0}

\* Digestible for Transaction (oracle/src/types.rs): sha256 over nonce,
\* instruction and public key, taken as collision-free.
Digest(tx) == <<tx.nonce, tx.instruction, tx.public_key>>

EmptyMap == <<>>
Without(f, k) == [x \in DOMAIN f \ {k} |-> f[x]]
With(f, k, v) == [x \in DOMAIN f \cup {k} |-> IF x = k THEN v ELSE f[x]]
First(keys) == CHOOSE k \in keys : \A o \in keys : k <= o
Last(keys) == CHOOSE k \in keys : \A o \in keys : k >= o

Pool(txs, tr, q) == [transactions |-> txs, tracked |-> tr, queue |-> q]

\* Mempool::new
NewPool == Pool(EmptyMap, EmptyMap, <<>>)

\* add that evicts the smallest nonce of the originator (pop_first).
add_evict_first(m, tx) ==
    IF Cardinality(DOMAIN m.transactions) >= MAX_TRANSACTIONS THEN m
    ELSE IF Digest(tx) \in DOMAIN m.transactions THEN m
    ELSE
      LET public == tx.public_key
          \* self.tracked.entry(public).or_default()
          tracked0 == IF public \in DOMAIN m.tracked THEN m.tracked
                      ELSE With(m.tracked, public, EmptyMap)
          entry0 == tracked0[public]
      IN IF tx.nonce \in DOMAIN entry0 THEN [m EXCEPT !.tracked = tracked0]
         ELSE
           LET entry1 == With(entry0, tx.nonce, Digest(tx))
               transactions1 == With(m.transactions, Digest(tx), tx)
               entries == Cardinality(DOMAIN entry1)
               future == entry1[First(DOMAIN entry1)]
               entry2 == IF entries > MAX_BACKLOG
                         THEN Without(entry1, First(DOMAIN entry1)) ELSE entry1
               transactions2 == IF entries > MAX_BACKLOG
                                THEN Without(transactions1, future) ELSE transactions1
           IN Pool(transactions2,
                   With(tracked0, public, entry2),
                   IF entries = 1 THEN Append(m.queue, public) ELSE m.queue)

\* add that still accepts when the pool holds MAX_TRANSACTIONS (> for >=).
add_above_cap(m, tx) ==
    IF Cardinality(DOMAIN m.transactions) > MAX_TRANSACTIONS THEN m
    ELSE IF Digest(tx) \in DOMAIN m.transactions THEN m
    ELSE
      LET public == tx.public_key
          \* self.tracked.entry(public).or_default()
          tracked0 == IF public \in DOMAIN m.tracked THEN m.tracked
                      ELSE With(m.tracked, public, EmptyMap)
          entry0 == tracked0[public]
      IN IF tx.nonce \in DOMAIN entry0 THEN [m EXCEPT !.tracked = tracked0]
         ELSE
           LET entry1 == With(entry0, tx.nonce, Digest(tx))
               transactions1 == With(m.transactions, Digest(tx), tx)
               entries == Cardinality(DOMAIN entry1)
               future == entry1[Last(DOMAIN entry1)]
               entry2 == IF entries > MAX_BACKLOG
                         THEN Without(entry1, Last(DOMAIN entry1)) ELSE entry1
               transactions2 == IF entries > MAX_BACKLOG
                                THEN Without(transactions1, future) ELSE transactions1
           IN Pool(transactions2,
                   With(tracked0, public, entry2),
                   IF entries = 1 THEN Append(m.queue, public) ELSE m.queue)

\* add without the check for an occupied (originator, nonce) slot.
add_overwrite_slot(m, tx) ==
    IF Cardinality(DOMAIN m.transactions) >= MAX_TRANSACTIONS THEN m
    ELSE IF Digest(tx) \in DOMAIN m.transactions THEN m
    ELSE
      LET public == tx.public_key
          \* self.tracked.entry(public).or_default()
          tracked0 == IF public \in DOMAIN m.tracked THEN m.tracked
                      ELSE With(m.tracked, public, EmptyMap)
          entry0 == tracked0[public]
      IN IF FALSE THEN [m EXCEPT !.tracked = tracked0]
         ELSE
           LET entry1 == With(entry0, tx.nonce, Digest(tx))
               transactions1 == With(m.transactions, Digest(tx), tx)
               entries == Cardinality(DOMAIN entry1)
               future == entry1[Last(DOMAIN entry1)]
               entry2 == IF entries > MAX_BACKLOG
                         THEN Without(entry1, Last(DOMAIN entry1)) ELSE entry1
               transactions2 == IF entries > MAX_BACKLOG
                                THEN Without(transactions1, future) ELSE transactions1
           IN Pool(transactions2,
                   With(tracked0, public, entry2),
                   IF entries = 1 THEN Append(m.queue, public) ELSE m.queue)

\* Mempool::add
add(m, tx) ==
    IF Cardinality(DOMAIN m.transactions) >= MAX_TRANSACTIONS THEN m
    ELSE IF Digest(tx) \in DOMAIN m.transactions THEN m
    ELSE
      LET public == tx.public_key
          \* self.tracked.entry(public).or_default()
          tracked0 == IF public \in DOMAIN m.tracked THEN m.tracked
                      ELSE With(m.tracked, public, EmptyMap)
          entry0 == tracked0[public]
      IN IF tx.nonce \in DOMAIN entry0 THEN [m EXCEPT !.tracked = tracked0]
         ELSE
           LET entry1 == With(entry0, tx.nonce, Digest(tx))
               transactions1 == With(m.transactions, Digest(tx), tx)
               entries == Cardinality(DOMAIN entry1)
               future == entry1[Last(DOMAIN entry1)]
               entry2 == IF entries > MAX_BACKLOG
                         THEN Without(entry1, Last(DOMAIN entry1)) ELSE entry1
               transactions2 == IF entries > MAX_BACKLOG
                                THEN Without(transactions1, future) ELSE transactions1
           IN Pool(transactions2,
                   With(tracked0, public, entry2),
                   IF entries = 1 THEN Append(m.queue, public) ELSE m.queue)

\* the loop of Mempool::retain
RECURSIVE RetainLoop(_, _, _)
RetainLoop(txs, entry, min) ==
    IF DOMAIN entry = {} THEN [transactions |-> txs, entry |-> entry, remove |-> TRUE]
    ELSE LET nonce == First(DOMAIN entry) IN
         IF nonce >= min THEN [transactions |-> txs, entry |-> entry, remove |-> FALSE]
         ELSE RetainLoop(Without(txs, entry[nonce]), Without(entry, nonce), min)

\* retain that also removes the entry at nonce min (> for >=).
retain_through_min(m, public, min) ==
    IF public \notin DOMAIN m.tracked THEN m
    ELSE LET loop == RetainLoop(m.transactions, m.tracked[public], min + 1)
         IN Pool(loop.transactions,
                 IF loop.remove THEN Without(m.tracked, public)
                 ELSE With(m.tracked, public, loop.entry),
                 m.queue)

\* retain that leaves the removed transactions in transactions.
retain_keep_transactions(m, public, min) ==
    IF public \notin DOMAIN m.tracked THEN m
    ELSE LET loop == RetainLoop(m.transactions, m.tracked[public], min)
         IN Pool(m.transactions,
                 IF loop.remove THEN Without(m.tracked, public)
                 ELSE With(m.tracked, public, loop.entry),
                 m.queue)

\* Mempool::retain
retain(m, public, min) ==
    IF public \notin DOMAIN m.tracked THEN m
    ELSE LET loop == RetainLoop(m.transactions, m.tracked[public], min)
         IN Pool(loop.transactions,
                 IF loop.remove THEN Without(m.tracked, public)
                 ELSE With(m.tracked, public, loop.entry),
                 m.queue)

Absent == [kind |-> "absent"]
Some(tx) == [kind |-> "tx", tx |-> tx]
\* transactions.remove(&digest).unwrap() on a digest that is not there
Unwrapped == [kind |-> "panic"]

\* next that serves the largest nonce of the originator (pop_last).
RECURSIVE next_pop_last(_)
next_pop_last(m) ==
    IF m.queue = <<>> THEN [pool |-> m, ret |-> Absent]
    ELSE
      LET address == Head(m.queue)
          popped == [m EXCEPT !.queue = Tail(m.queue)]
      IN IF address \notin DOMAIN m.tracked THEN next_pop_last(popped)
         ELSE IF DOMAIN m.tracked[address] = {} THEN next_pop_last(popped)
         ELSE
           LET nonce == Last(DOMAIN m.tracked[address])
               digest == m.tracked[address][nonce]
               rest == Without(m.tracked[address], nonce)
               requeued == IF DOMAIN rest # {}
                           THEN Pool(m.transactions, With(m.tracked, address, rest),
                                     Append(popped.queue, address))
                           ELSE Pool(m.transactions, Without(m.tracked, address),
                                     popped.queue)
           IN IF digest \notin DOMAIN m.transactions
              THEN [pool |-> requeued, ret |-> Unwrapped]
              ELSE [pool |-> [requeued EXCEPT !.transactions = Without(@, digest)],
                    ret |-> Some(m.transactions[digest])]

\* next that never puts the originator back in queue.
RECURSIVE next_no_requeue(_)
next_no_requeue(m) ==
    IF m.queue = <<>> THEN [pool |-> m, ret |-> Absent]
    ELSE
      LET address == Head(m.queue)
          popped == [m EXCEPT !.queue = Tail(m.queue)]
      IN IF address \notin DOMAIN m.tracked THEN next_no_requeue(popped)
         ELSE IF DOMAIN m.tracked[address] = {} THEN next_no_requeue(popped)
         ELSE
           LET nonce == First(DOMAIN m.tracked[address])
               digest == m.tracked[address][nonce]
               rest == Without(m.tracked[address], nonce)
               requeued == IF DOMAIN rest # {}
                           THEN Pool(m.transactions, With(m.tracked, address, rest),
                                     popped.queue)
                           ELSE Pool(m.transactions, Without(m.tracked, address),
                                     popped.queue)
           IN IF digest \notin DOMAIN m.transactions
              THEN [pool |-> requeued, ret |-> Unwrapped]
              ELSE [pool |-> [requeued EXCEPT !.transactions = Without(@, digest)],
                    ret |-> Some(m.transactions[digest])]

\* next that gives up at a stale queue entry instead of going on to the
\* next one.
RECURSIVE next_stop_at_stale(_)
next_stop_at_stale(m) ==
    IF m.queue = <<>> THEN [pool |-> m, ret |-> Absent]
    ELSE
      LET address == Head(m.queue)
          popped == [m EXCEPT !.queue = Tail(m.queue)]
      IN IF address \notin DOMAIN m.tracked THEN [pool |-> popped, ret |-> Absent]
         ELSE IF DOMAIN m.tracked[address] = {} THEN next_stop_at_stale(popped)
         ELSE
           LET nonce == First(DOMAIN m.tracked[address])
               digest == m.tracked[address][nonce]
               rest == Without(m.tracked[address], nonce)
               requeued == IF DOMAIN rest # {}
                           THEN Pool(m.transactions, With(m.tracked, address, rest),
                                     Append(popped.queue, address))
                           ELSE Pool(m.transactions, Without(m.tracked, address),
                                     popped.queue)
           IN IF digest \notin DOMAIN m.transactions
              THEN [pool |-> requeued, ret |-> Unwrapped]
              ELSE [pool |-> [requeued EXCEPT !.transactions = Without(@, digest)],
                    ret |-> Some(m.transactions[digest])]

\* Mempool::next: [pool, ret]
RECURSIVE next(_)
next(m) ==
    IF m.queue = <<>> THEN [pool |-> m, ret |-> Absent]
    ELSE
      LET address == Head(m.queue)
          popped == [m EXCEPT !.queue = Tail(m.queue)]
      IN IF address \notin DOMAIN m.tracked THEN next(popped)
         ELSE IF DOMAIN m.tracked[address] = {} THEN next(popped)
         ELSE
           LET nonce == First(DOMAIN m.tracked[address])
               digest == m.tracked[address][nonce]
               rest == Without(m.tracked[address], nonce)
               requeued == IF DOMAIN rest # {}
                           THEN Pool(m.transactions, With(m.tracked, address, rest),
                                     Append(popped.queue, address))
                           ELSE Pool(m.transactions, Without(m.tracked, address),
                                     popped.queue)
           IN IF digest \notin DOMAIN m.transactions
              THEN [pool |-> requeued, ret |-> Unwrapped]
              ELSE [pool |-> [requeued EXCEPT !.transactions = Without(@, digest)],
                    ret |-> Some(m.transactions[digest])]

\* Actor::mint_block: while let Some(tx) = self.mempool.next() { txs.push(tx) }
\* [pool, txs, how]; more draws than there were transactions is an endless loop
RECURSIVE DrainFrom(_, _, _)
DrainFrom(m, txs, fuel) ==
    LET out == next(m) IN
    IF out.ret.kind = "absent" THEN [pool |-> out.pool, txs |-> txs, how |-> "no"]
    ELSE IF out.ret.kind = "panic" THEN [pool |-> out.pool, txs |-> txs, how |-> "panic"]
    ELSE IF fuel = 0 THEN [pool |-> out.pool, txs |-> txs, how |-> "endless"]
    ELSE DrainFrom(out.pool, Append(txs, out.ret.tx), fuel - 1)
Drain(m) == DrainFrom(m, <<>>, Cardinality(DOMAIN m.transactions))

\* ---------------------------------------------------- mempool draw monitors
Backlogged(m) == {pk \in DOMAIN m.tracked : DOMAIN m.tracked[pk] # {}}
\* a run of draws that has not begun: nothing drawn, every backlogged
\* originator still in it
FreshWindow(m) == [count |-> [pk \in PublicKeys |-> 0], live |-> Backlogged(m)]
\* one more draw, for pk, that leaves the pool as after
Drawn(w, pk, after) ==
    [count |-> [w.count EXCEPT ![pk] = @ + 1], live |-> w.live \cap Backlogged(after)]
NothingDrawn == [pk \in PublicKeys |-> -1]

\* ------------------------------------------------- mempool branch monitors
\* which return of Mempool::add the call add(m, tx) reaches
AddPath(m, tx) ==
    IF Cardinality(DOMAIN m.transactions) >= MAX_TRANSACTIONS THEN "full"
    ELSE IF Digest(tx) \in DOMAIN m.transactions THEN "duplicate"
    ELSE IF tx.public_key \notin DOMAIN m.tracked THEN "inserted"
    ELSE IF tx.nonce \in DOMAIN m.tracked[tx.public_key] THEN "occupied"
    ELSE IF Cardinality(DOMAIN m.tracked[tx.public_key]) < MAX_BACKLOG THEN "inserted"
    ELSE IF \A n \in DOMAIN m.tracked[tx.public_key] : n < tx.nonce THEN "evicted_new"
    ELSE "evicted_old"
\* which way Mempool::retain leaves the originator
RetainPath(m, public, min) ==
    IF public \notin DOMAIN m.tracked THEN "untracked"
    ELSE IF \A n \in DOMAIN m.tracked[public] : n < min THEN "emptied"
    ELSE IF \E n \in DOMAIN m.tracked[public] : n < min THEN "trimmed"
    ELSE "kept"

\* ------------------------------------------------------ scenario S1 monitor
\* spec.md S1: Propose(1, R, A), Propose(1, R, B), Propose(2, A, C),
\* FinalizeFrame, FinalizeFrame on a fresh tree with root R = 1.
S1Root == GenesisDigest
S1A == GenesisDigest + 1
S1B == GenesisDigest + 2
S1C == GenesisDigest + 3
ProposeCall(height, parent, hash) ==
    [op |-> "Propose", height |-> height, parent |-> parent, hash |-> hash]
FinalizeCall == [op |-> "Finalize", height |-> 0, parent |-> ZeroDigest, hash |-> ZeroDigest]
NewCall(g) == [op |-> "New", height |-> 0, parent |-> ZeroDigest, hash |-> g]
S1Script == <<ProposeCall(1, S1Root, S1A), ProposeCall(1, S1Root, S1B),
              ProposeCall(2, S1A, S1C), FinalizeCall, FinalizeCall>>
S1Step(k, c) ==
    IF k >= 0 /\ k < Len(S1Script) /\ S1Script[k + 1] = c THEN k + 1 ELSE -1

\* ------------------------------------------------------------ u64 arithmetic
U64 == 0..U64_MAX
\* u64 += and -= : [val, how]; out of range panics in a build with overflow
\* checks and wraps otherwise
U64Add(a, b, checks) ==
    IF a + b <= U64_MAX THEN [val |-> a + b, how |-> "no"]
    ELSE IF checks THEN [val |-> a, how |-> "panic"]
    ELSE [val |-> (a + b) % (U64_MAX + 1), how |-> "no"]
U64Sub(a, b, checks) ==
    IF a >= b THEN [val |-> a - b, how |-> "no"]
    ELSE IF checks THEN [val |-> a, how |-> "panic"]
    ELSE [val |-> (a - b) % (U64_MAX + 1), how |-> "no"]
\* u64::saturating_add
SaturatingAdd(a, b) == IF a + b <= U64_MAX THEN a + b ELSE U64_MAX

\* ---------------------------------------------------------- oracle executor
\* BlockProposal (oracle/src/types.rs); the proposals offered: a new block
\* and a sibling under S1A, a wrong height, a parent that is not there until
\* S1C is proposed, and a block under the root
BlockProposal(height, parent, hash) ==
    [block_height |-> height, parent_hash |-> parent, block_hash |-> hash]
BlockProposals ==
    {BlockProposal(2, S1A, S1C), BlockProposal(2, S1A, S1B), BlockProposal(1, S1A, S1C),
     BlockProposal(2, S1C, S1B), BlockProposal(1, S1Root, S1B)}
\* Instruction::ProposeBlock
ProposeBlock(proposal) == [kind |-> "ProposeBlock", proposal |-> proposal]
OracleTransactions ==
    [nonce : 0..MaxBuilderNonce,
     instruction : {ProposeBlock(p) : p \in BlockProposals},
     public_key : PublicKeys]

BuilderAccount(nonce) == [nonce |-> nonce]
\* Event::FrameFinalized(Frame { frame_number, chain_head })
FrameFinalized(frame_number, chain_head) ==
    [kind |-> "FrameFinalized", frame_number |-> frame_number, chain_head |-> chain_head]

State(b, tree, min, count) ==
    [builders |-> b, fork_tree |-> tree,
     finalize_frame_block_proposal_min |-> min, frame_block_proposal_count |-> count]

\* State::new
NewState(genesis_block_hash, min) == State(EmptyMap, NewTree(genesis_block_hash), min, 0)

\* prepare_sender_account that stores the advanced nonce before it compares
\* the nonces.
prepare_sender_account_store_first(state, tx) ==
    IF tx.public_key \notin DOMAIN state.builders
    THEN [state |-> state, some |-> FALSE, how |-> "no"]
    ELSE
      LET next_nonce == U64Add(state.builders[tx.public_key].nonce, 1, overflow_checks)
          stored == [state EXCEPT !.builders =
                        With(@, tx.public_key, BuilderAccount(next_nonce.val))]
      IN IF next_nonce.how # "no" THEN [state |-> state, some |-> FALSE, how |-> next_nonce.how]
         ELSE IF state.builders[tx.public_key].nonce # tx.nonce
         THEN [state |-> stored, some |-> FALSE, how |-> "no"]
         ELSE [state |-> stored, some |-> TRUE, how |-> "no"]

\* prepare_sender_account: [state, some, how]; account.nonce += 1 is u64
\* arithmetic of the build (overflow_checks)
prepare_sender_account(state, tx) ==
    IF tx.public_key \notin DOMAIN state.builders
    THEN [state |-> state, some |-> FALSE, how |-> "no"]
    ELSE IF state.builders[tx.public_key].nonce # tx.nonce
    THEN [state |-> state, some |-> FALSE, how |-> "no"]
    ELSE
      LET next_nonce == U64Add(state.builders[tx.public_key].nonce, 1, overflow_checks) IN
      IF next_nonce.how # "no" THEN [state |-> state, some |-> FALSE, how |-> next_nonce.how]
      ELSE [state |-> [state EXCEPT !.builders =
                          With(@, tx.public_key, BuilderAccount(next_nonce.val))],
            some |-> TRUE, how |-> "no"]

NotCalled == [kind |-> "none", val |-> <<>>]
\* what apply_transaction comes to: the state it leaves, Some(events) or
\* None, whether it returned, and what its calls on the tree returned
Applied(state, some, events, how, propose, finalize) ==
    [state |-> state, some |-> some, events |-> events, how |-> how,
     propose |-> propose, finalize |-> finalize]

\* apply_transaction that leaves frame_block_proposal_count as it is after a
\* successful finalization.
apply_transaction_keep_count(state, tx) ==
    LET proposal == tx.instruction.proposal
        proposed == propose_block(state.fork_tree, proposal.block_height,
                                  proposal.parent_hash, proposal.block_hash)
        after == [state EXCEPT !.fork_tree = proposed.tree]
    IN IF proposed.how # "no"
       THEN Applied(after, FALSE, <<>>, proposed.how, proposed.result, NotCalled)
       ELSE IF proposed.result.kind # "Ok"
       THEN Applied(after, FALSE, <<>>, "no", proposed.result, NotCalled)
       ELSE
         LET counted == [after EXCEPT !.frame_block_proposal_count = @ + 1] IN
         IF counted.frame_block_proposal_count >= counted.finalize_frame_block_proposal_min
         THEN
           LET finalized == finalize_block_frame(counted.fork_tree) IN
           IF finalized.how # "no"
           THEN Applied(counted, FALSE, <<>>, finalized.how, proposed.result, finalized.result)
           ELSE IF finalized.result.kind = "Ok"
           THEN Applied([counted EXCEPT !.fork_tree = finalized.tree],
                        TRUE,
                        <<FrameFinalized(finalized.result.val[1], finalized.result.val[2])>>,
                        "no", proposed.result, finalized.result)
           ELSE Applied(counted, FALSE, <<>>, "todo", proposed.result, finalized.result)
         ELSE Applied(counted, TRUE, <<>>, "no", proposed.result, NotCalled)

\* apply_transaction
apply_transaction(state, tx) ==
    LET proposal == tx.instruction.proposal
        proposed == propose_block(state.fork_tree, proposal.block_height,
                                  proposal.parent_hash, proposal.block_hash)
        after == [state EXCEPT !.fork_tree = proposed.tree]
    IN IF proposed.how # "no"
       THEN Applied(after, FALSE, <<>>, proposed.how, proposed.result, NotCalled)
       ELSE IF proposed.result.kind # "Ok"
       THEN Applied(after, FALSE, <<>>, "no", proposed.result, NotCalled)
       ELSE
         LET counted == [after EXCEPT !.frame_block_proposal_count = @ + 1] IN
         IF counted.frame_block_proposal_count >= counted.finalize_frame_block_proposal_min
         THEN
           LET finalized == finalize_block_frame(counted.fork_tree) IN
           IF finalized.how # "no"
           THEN Applied(counted, FALSE, <<>>, finalized.how, proposed.result, finalized.result)
           ELSE IF finalized.result.kind = "Ok"
           THEN Applied([counted EXCEPT !.fork_tree = finalized.tree,
                                        !.frame_block_proposal_count = 0],
                        TRUE,
                        <<FrameFinalized(finalized.result.val[1], finalized.result.val[2])>>,
                        "no", proposed.result, finalized.result)
           \* Err(err) => todo!()
           ELSE Applied(counted, FALSE, <<>>, "todo", proposed.result, finalized.result)
         ELSE Applied(counted, TRUE, <<>>, "no", proposed.result, NotCalled)

\* StateTransitionResult
StateTransitionResult(nonces, invalid, events) ==
    [processed_nonces |-> nonces, invalid_txs |-> invalid, generated_events |-> events]

\* one turn of the loop of execute_state_transition, for tx:
\* [state, res, how, prepared, propose, finalize]
ExecuteLoop(state, res, tx) ==
    LET sender == prepare_sender_account(state, tx) IN
    IF sender.how # "no"
    THEN [state |-> sender.state, res |-> res,
          how |-> sender.how, prepared |-> FALSE, propose |-> NotCalled, finalize |-> NotCalled]
    ELSE IF ~sender.some
    THEN [state |-> sender.state,
          res |-> [res EXCEPT !.invalid_txs = Append(@, tx)],
          how |-> "no", prepared |-> FALSE, propose |-> NotCalled, finalize |-> NotCalled]
    ELSE
      LET out == apply_transaction(sender.state, tx) IN
      [state |-> out.state,
       res |-> IF out.how # "no" THEN res
               ELSE IF ~out.some THEN [res EXCEPT !.invalid_txs = Append(@, tx)]
               ELSE [res EXCEPT !.generated_events = @ \o out.events,
                                !.processed_nonces =
                                    With(@, tx.public_key, SaturatingAdd(tx.nonce, 1))],
       how |-> out.how, prepared |-> TRUE, propose |-> out.propose, finalize |-> out.finalize]

\* execute_state_transition: [state, res, how]
RECURSIVE ExecuteFrom(_, _, _)
ExecuteFrom(state, res, txs) ==
    IF txs = <<>> THEN [state |-> state, res |-> res, how |-> "no"]
    ELSE LET turn == ExecuteLoop(state, res, Head(txs)) IN
         IF turn.how # "no" THEN [state |-> turn.state, res |-> turn.res, how |-> turn.how]
         ELSE ExecuteFrom(turn.state, turn.res, Tail(txs))
execute_state_transition(state, txs) ==
    ExecuteFrom(state, StateTransitionResult(EmptyMap, <<>>, <<>>), txs)

\* ------------------------------------------------------------- oracle actor
\* MessageEvent (oracle/src/wire.rs)
BlockMinted(n) == [kind |-> "BlockMinted", block_number |-> n]
MessageFrameFinalized(event) ==
    [kind |-> "FrameFinalized",
     frame |-> [frame_number |-> event.frame_number, chain_head |-> event.chain_head]]

\* mint_block that signals the frames before the block.
BroadcastsFramesFirst(n, events) ==
    [i \in 1..Len(events) |-> MessageFrameFinalized(events[i])] \o <<BlockMinted(n)>>

\* Actor::mint_block, what it hands to buffer_mailbox.broadcast, in order:
\* the block, then every Event::FrameFinalized of the result
Broadcasts(n, events) ==
    <<BlockMinted(n)>> \o [i \in 1..Len(events) |-> MessageFrameFinalized(events[i])]

\* Actor::mint_block, the loop over result.processed_nonces
RECURSIVE RetainProcessed(_, _)
RetainProcessed(m, nonces) ==
    IF DOMAIN nonces = {} THEN m
    ELSE LET public == CHOOSE k \in DOMAIN nonces : TRUE
         IN RetainProcessed(retain(m, public, nonces[public]), Without(nonces, public))

\* Actor::mint_block after the drain and the execution:
\* [pool, state, res, how, block_number, broadcast, txs]
Minted(drained, out, n) ==
    IF drained.how # "no"
    THEN [pool |-> drained.pool, ran |-> FALSE, state |-> out.state, res |-> out.res,
          how |-> "panic", block_number |-> n, broadcast |-> <<>>, txs |-> drained.txs]
    ELSE IF out.how # "no"
    THEN [pool |-> drained.pool, ran |-> TRUE, state |-> out.state, res |-> out.res,
          how |-> out.how, block_number |-> n, broadcast |-> <<>>, txs |-> drained.txs]
    ELSE [pool |-> RetainProcessed(drained.pool, out.res.processed_nonces), ran |-> TRUE,
          state |-> out.state, res |-> out.res, how |-> "no", block_number |-> n + 1,
          broadcast |-> Broadcasts(n + 1, out.res.generated_events), txs |-> drained.txs]
MintDrained(drained, state, n) ==
    Minted(drained, execute_state_transition(state, drained.txs), n)
\* Actor::mint_block
mint_block(m, state, n) == MintDrained(Drain(m), state, n)

\* the transactions that reach the actor: each builder's first two, all
\* proposing the block S1B under S1A
ActorTransactions ==
    [nonce : 0..1,
     instruction : {ProposeBlock(BlockProposal(2, S1A, S1B))},
     public_key : PublicKeys]

\* ----------------------------------------------------------- swarm executor
\* swarm types.rs
Account(nonce, bread) == [nonce |-> nonce, bread |-> bread]
\* Account::default()
DefaultAccount == Account(0, 0)
CommitMetadata(height, start) == [height |-> height, start |-> start]
ValueAccount(account) == [kind |-> "Account", account |-> account]
ValueCommitMetadata(meta) == [kind |-> "CommitMetadata", meta |-> meta]
TransferBread(amount, to) == [kind |-> "TransferBread", amount |-> amount, to |-> to]
SwarmTransactions ==
    [nonce : 0..1,
     instruction : {TransferBread(amount, to) : amount \in 1..2, to \in PublicKeys},
     public_key : PublicKeys]

\* StateOperation::Update
Update(value) == [kind |-> "Update", value |-> value]
NoValue == [kind |-> "None"]

\* State::get; a key is Key::Account(public key), the only kind of key
StateGet(store, key) == IF key \in DOMAIN store THEN store[key] ELSE NoValue

\* State::commit_metadata
commit_metadata(metadata) ==
    IF metadata.kind = "CommitMetadata" THEN metadata.meta ELSE CommitMetadata(0, 0)

\* State::root: the root commits to the operations applied so far
StateRoot(store, metadata, ops) == <<store, metadata, ops>>

\* StateLayer::get
layer_get(store, pending, key) ==
    IF key \in DOMAIN pending
    THEN IF pending[key].kind = "Update" THEN pending[key].value ELSE NoValue
    ELSE StateGet(store, key)

\* StateLayer::insert
layer_insert(pending, key, value) == With(pending, key, Update(value))

\* StateLayer::prepare_sender_account: [some, account, how]
layer_prepare_sender_account(store, pending, tx, checks) ==
    LET got == layer_get(store, pending, tx.public_key) IN
    IF got.kind # "Account" THEN [some |-> FALSE, account |-> DefaultAccount, how |-> "no"]
    ELSE IF got.account.nonce # tx.nonce
    THEN [some |-> FALSE, account |-> got.account, how |-> "no"]
    ELSE LET next_nonce == U64Add(got.account.nonce, 1, checks) IN
         [some |-> next_nonce.how = "no",
          account |-> [got.account EXCEPT !.nonce = next_nonce.val],
          how |-> next_nonce.how]

\* StateLayer::apply_transfer_bread that stores the prepared sender before it
\* looks at the balance.
layer_apply_transfer_bread_store_first(store, pending, sender_pk, sender, tx, checks) ==
    LET pending0 == layer_insert(pending, sender_pk, ValueAccount(sender)) IN
    IF sender.bread < tx.amount THEN [pending |-> pending0, valid |-> FALSE, how |-> "no"]
    ELSE
      LET got == layer_get(store, pending, tx.to)
          receiver == IF got.kind = "Account" THEN got.account ELSE DefaultAccount
          tx_sender == [sender EXCEPT !.bread = U64Sub(sender.bread, tx.amount, checks).val]
          pending1 == layer_insert(pending0, sender_pk, ValueAccount(tx_sender))
          credited == U64Add(receiver.bread, tx.amount, checks)
      IN IF credited.how # "no"
         THEN [pending |-> pending1, valid |-> FALSE, how |-> credited.how]
         ELSE [pending |-> layer_insert(pending1, tx.to,
                                        ValueAccount([receiver EXCEPT !.bread = credited.val])),
               valid |-> TRUE, how |-> "no"]

\* StateLayer::apply_transfer_bread: [pending, valid, how]
layer_apply_transfer_bread(store, pending, sender_pk, sender, tx, checks) ==
    IF sender.bread < tx.amount THEN [pending |-> pending, valid |-> FALSE, how |-> "no"]
    ELSE
      LET got == layer_get(store, pending, tx.to)
          receiver == IF got.kind = "Account" THEN got.account ELSE DefaultAccount
          tx_sender == [sender EXCEPT !.bread = U64Sub(sender.bread, tx.amount, checks).val]
          pending1 == layer_insert(pending, sender_pk, ValueAccount(tx_sender))
          credited == U64Add(receiver.bread, tx.amount, checks)
      IN IF credited.how # "no"
         THEN [pending |-> pending1, valid |-> FALSE, how |-> credited.how]
         ELSE [pending |-> layer_insert(pending1, tx.to,
                                        ValueAccount([receiver EXCEPT !.bread = credited.val])),
               valid |-> TRUE, how |-> "no"]

\* one turn of the loop of StateLayer::execute, for tx:
\* [pending, processed_nonces, invalid_txs, how, valid]
LayerExecuteLoop(store, pending, nonces, invalid, tx, checks) ==
    LET sender == layer_prepare_sender_account(store, pending, tx, checks) IN
    IF sender.how # "no"
    THEN [pending |-> pending, processed_nonces |-> nonces, invalid_txs |-> invalid,
          how |-> sender.how, valid |-> FALSE]
    ELSE IF ~sender.some
    THEN [pending |-> pending, processed_nonces |-> nonces,
          invalid_txs |-> Append(invalid, tx), how |-> "no", valid |-> FALSE]
    ELSE
      LET out == layer_apply_transfer_bread(store, pending, tx.public_key,
                                            sender.account, tx.instruction, checks)
      IN IF out.how # "no"
         THEN [pending |-> out.pending, processed_nonces |-> nonces, invalid_txs |-> invalid,
               how |-> out.how, valid |-> FALSE]
         ELSE IF ~out.valid
         THEN [pending |-> out.pending, processed_nonces |-> nonces,
               invalid_txs |-> Append(invalid, tx), how |-> "no", valid |-> FALSE]
         ELSE [pending |-> out.pending,
               processed_nonces |->
                   With(nonces, tx.public_key, SaturatingAdd(tx.nonce, 1)),
               invalid_txs |-> invalid, how |-> "no", valid |-> TRUE]

\* State::apply that commits without the metadata of the batch.
StateApplyKeepMetadata(store, ops, changes, commit_meta) ==
    [store |-> [key \in (DOMAIN store \cup DOMAIN changes)
                            \ {k \in DOMAIN changes : changes[k].kind = "Delete"} |->
                   IF key \in DOMAIN changes THEN changes[key].value ELSE store[key]],
     metadata |-> ValueCommitMetadata(CommitMetadata(0, 0)),
     ops |-> ops + Cardinality(DOMAIN changes) + 1]

\* State::apply: the staged changes, one adb operation each, then adb.commit,
\* one more operation: [store, metadata, ops]
StateApply(store, ops, changes, commit_meta) ==
    [store |-> [key \in (DOMAIN store \cup DOMAIN changes)
                            \ {k \in DOMAIN changes : changes[k].kind = "Delete"} |->
                   IF key \in DOMAIN changes THEN changes[key].value ELSE store[key]],
     metadata |-> ValueCommitMetadata(commit_meta),
     ops |-> ops + Cardinality(DOMAIN changes) + 1]

\* swarm StateTransitionResult
SwarmResult(root, start_op, end_op, nonces, invalid) ==
    [state_root |-> root, state_start_op |-> start_op, state_end_op |-> end_op,
     processed_nonces |-> nonces, invalid_txs |-> invalid]

\* ---------------------------------------------------------------- swarm codec
\* u64::write: eight bytes, the most significant first (values below 2^24)
U64Write(v) ==
    [i \in 1..8 |-> IF i <= 5 THEN 0
                    ELSE IF i = 6 THEN (v \div 65536) % 256
                    ELSE IF i = 7 THEN (v \div 256) % 256
                    ELSE v % 256]
\* what a Read leaves: the value and the rest of the buffer, or an error
ReadOk(value, rest) == [kind |-> "Ok", value |-> value, rest |-> rest]
ReadErr(error) == [kind |-> "Err", error |-> error]
RECURSIVE BigEndian(_)
BigEndian(bytes) ==
    IF bytes = <<>> THEN 0
    ELSE BigEndian(SubSeq(bytes, 1, Len(bytes) - 1)) * 256 + bytes[Len(bytes)]
\* u64::read
U64Read(buf) ==
    IF Len(buf) < 8 THEN ReadErr("EndOfBuffer")
    ELSE ReadOk(BigEndian(SubSeq(buf, 1, 8)), SubSeq(buf, 9, Len(buf)))
\* u8::read
U8Read(buf) ==
    IF Len(buf) < 1 THEN ReadErr("EndOfBuffer")
    ELSE ReadOk(buf[1], Tail(buf))

\* impl Write / EncodeSize / Read for Account
AccountWrite(account) == U64Write(account.nonce) \o U64Write(account.bread)
AccountEncodeSize(account) == 8 + 8
AccountRead(buf) ==
    LET nonce == U64Read(buf) IN
    IF nonce.kind = "Err" THEN nonce
    ELSE LET bread == U64Read(nonce.rest) IN
         IF bread.kind = "Err" THEN bread
         ELSE ReadOk(Account(nonce.value, bread.value), bread.rest)

\* impl Write / EncodeSize / Read for CommitMetadata
CommitMetadataWrite(meta) == U64Write(meta.height) \o U64Write(meta.start)
CommitMetadataEncodeSize(meta) == 8 + 8
CommitMetadataRead(buf) ==
    LET height == U64Read(buf) IN
    IF height.kind = "Err" THEN height
    ELSE LET start == U64Read(height.rest) IN
         IF start.kind = "Err" THEN start
         ELSE ReadOk(CommitMetadata(height.value, start.value), start.rest)

\* impl Write for Value
ValueWrite(value) ==
    IF value.kind = "Account" THEN <<0>> \o AccountWrite(value.account)
    ELSE <<1>> \o U64Write(value.meta.height)
\* impl EncodeSize for Value
ValueEncodeSize(value) ==
    1 + (IF value.kind = "Account" THEN AccountEncodeSize(value.account)
         ELSE CommitMetadataEncodeSize(value.meta))
\* impl Read for Value
ValueRead(buf) ==
    LET tag == U8Read(buf) IN
    IF tag.kind = "Err" THEN tag
    ELSE IF tag.value = 0
    THEN LET account == AccountRead(tag.rest) IN
         IF account.kind = "Err" THEN account
         ELSE ReadOk(ValueAccount(account.value), account.rest)
    ELSE IF tag.value = 1
    THEN LET meta == CommitMetadataRead(tag.rest) IN
         IF meta.kind = "Err" THEN meta
         ELSE ReadOk(ValueCommitMetadata(meta.value), meta.rest)
    ELSE ReadErr("InvalidEnum")

\* ------------------------------------------------------------- actions
TreeNow == Tree(nodes, finalized_frame, finalized_head)

Apply(out, c) ==
    /\ UNCHANGED poolVars
    /\ UNCHANGED oracleVars
    /\ UNCHANGED <<swarmVars, actorVars, codecVars>>
    /\ nodes' = out.tree.nodes
    /\ finalized_frame' = out.tree.finalized_frame
    /\ finalized_head' = out.tree.finalized_head
    /\ halted' = out.how
    /\ result' = out.result
    /\ call' = c
    /\ s1' = S1Step(s1, c)
    /\ UNCHANGED genesis

Propose(height, parent, hash) ==
    /\ halted = "no"
    /\ Apply(propose_block(TreeNow, height, parent, hash), ProposeCall(height, parent, hash))

FinalizeFrame ==
    /\ halted = "no"
    /\ finalized_frame < MaxFrame
    /\ Apply(finalize_block_frame(TreeNow), FinalizeCall)

PoolNow == Pool(transactions, tracked, queue)

InitPoolVars ==
    /\ transactions = NewPool.transactions
    /\ tracked = NewPool.tracked
    /\ queue = NewPool.queue
    /\ poolCall = "new"
    /\ poolPath = "new"
    /\ poolRet = Absent
    /\ drawn = NothingDrawn
    /\ window = FreshWindow(NewPool)

\* no swarm State has been opened
NoLayer == [kind |-> "none"]
NoSwarmResult == [kind |-> "none"]
InitSwarmVars ==
    /\ adb = EmptyMap
    /\ adb_metadata = NoValue
    /\ adb_op_count = 0
    /\ overflow_checks = TRUE
    /\ layer = NoLayer
    /\ layer_processed_nonces = EmptyMap
    /\ layer_invalid_txs = <<>>
    /\ swarm_taken = 0
    /\ swarm_halted = "no"
    /\ swarm_call = [op |-> "new"]
    /\ swarm_result = NoSwarmResult

\* Actor::new
InitActorVars ==
    /\ block_number = 0
    /\ sent = <<>>
    /\ actor_halted = "no"
    /\ actor_call = [op |-> "new"]

InitCodecVars ==
    /\ codec_value = NoValue
    /\ codec_bytes = <<>>
    /\ codec_read = NoValue

\* no transaction taken yet
NoneApplied ==
    [tx |-> <<>>, prepared |-> FALSE, propose |-> NotCalled, finalize |-> NotCalled]

InitOracleVars(min) ==
    /\ builders = NewState(GenesisDigest, min).builders
    /\ finalize_frame_block_proposal_min = min
    /\ frame_block_proposal_count = NewState(GenesisDigest, min).frame_block_proposal_count
    /\ processed_nonces = EmptyMap
    /\ invalid_txs = <<>>
    /\ generated_events = <<>>
    /\ taken = 0
    /\ applied = NoneApplied

InitTree(g) ==
    /\ InitPoolVars
    /\ InitSwarmVars
    /\ InitActorVars
    /\ InitCodecVars
    /\ InitOracleVars(1)
    /\ genesis = g
    /\ nodes = NewTree(g).nodes
    /\ finalized_frame = NewTree(g).finalized_frame
    /\ finalized_head = NewTree(g).finalized_head
    /\ halted = "no"
    /\ call = NewCall(g)
    /\ result = Ok(<<>>)
    /\ s1 = IF g = S1Root THEN 0 ELSE -1

Init == \E g \in {ZeroDigest, S1Root} : InitTree(g)

Next ==
    \/ \E height \in Heights, parent \in Digests, hash \in Digests :
          Propose(height, parent, hash)
    \/ FinalizeFrame

vars == <<treeVars, poolVars, oracleVars, swarmVars, actorVars, codecVars>>

Spec == Init /\ [][Next]_vars

\* ------------------------------------------------------------ SpecFinalize
\* Every well-formed tree over the root and a subset of 2..MaxTreeNodes:
\* any parent map that leads to the root, any insertion order of the
\* children, any scores in 0..MaxScore, any node as finalized_head.
FinalizeRoot == GenesisDigest

RECURSIVE LeadsToRoot(_, _, _)
LeadsToRoot(par, h, fuel) ==
    IF h = FinalizeRoot THEN TRUE
    ELSE IF fuel = 0 THEN FALSE
    ELSE LeadsToRoot(par, par[h], fuel - 1)

RECURSIVE DepthOf(_, _)
DepthOf(par, h) == IF h = FinalizeRoot THEN 0 ELSE 1 + DepthOf(par, par[h])

\* the set kids as a sequence, ascending in rank
RECURSIVE InRankOrder(_, _)
InRankOrder(kids, rank) ==
    IF kids = {} THEN <<>>
    ELSE LET first == CHOOSE k \in kids : \A o \in kids : rank[k] <= rank[o]
         IN <<first>> \o InRankOrder(kids \ {first}, rank)

BuiltTree(S, par, sc, rank) ==
    [h \in S \cup {FinalizeRoot} |->
        [block_frame |-> IF h = FinalizeRoot THEN 0 ELSE 2,
         block_height |-> DepthOf(par, h),
         block_parent |-> IF h = FinalizeRoot THEN ZeroDigest ELSE par[h],
         block_hash |-> h,
         score |-> IF h = FinalizeRoot THEN 0 ELSE sc[h],
         children |-> InRankOrder({k \in S : par[k] = h}, rank)]]

InitFinalize ==
    \E S \in SUBSET (2..MaxTreeNodes) :
      \E par \in [S -> S \cup {FinalizeRoot}] :
        /\ \A h \in S : LeadsToRoot(par, h, Cardinality(S))
        /\ \E sc \in [S -> 0..MaxScore], rank \in Permutations(S), head \in S \cup {FinalizeRoot} :
             /\ genesis = FinalizeRoot
             /\ nodes = BuiltTree(S, par, sc, rank)
             /\ finalized_frame = 1
             /\ finalized_head = head
             /\ halted = "no"
             /\ call = NewCall(FinalizeRoot)
             /\ result = Ok(<<>>)
             /\ s1 = -1
             /\ InitPoolVars
             /\ InitSwarmVars
             /\ InitActorVars
             /\ InitCodecVars
             /\ InitOracleVars(1)

NextFinalize == FinalizeFrame

SpecFinalize == InitFinalize /\ [][NextFinalize]_vars

\* ---------------------------------------------------------------- SpecPool
SetPool(m) ==
    /\ transactions' = m.transactions
    /\ tracked' = m.tracked
    /\ queue' = m.queue
    /\ UNCHANGED treeVars
    /\ UNCHANGED oracleVars
    /\ UNCHANGED <<swarmVars, actorVars, codecVars>>

Add(tx) ==
    /\ poolRet.kind # "panic"
    /\ LET out == add(PoolNow, tx) IN
       /\ Len(out.queue) <= MaxQueue
       /\ SetPool(out)
       /\ poolCall' = "add"
       /\ poolPath' = AddPath(PoolNow, tx)
       /\ poolRet' = Absent
       /\ drawn' = NothingDrawn
       /\ window' = FreshWindow(out)

Retain(public, min) ==
    /\ poolRet.kind # "panic"
    /\ LET out == retain(PoolNow, public, min) IN
       /\ SetPool(out)
       /\ poolCall' = "retain"
       /\ poolPath' = RetainPath(PoolNow, public, min)
       /\ poolRet' = Absent
       /\ UNCHANGED drawn
       /\ window' = FreshWindow(out)

\* restart: the run of draws under watch begins with this draw
NextTransaction(restart) ==
    /\ poolRet.kind # "panic"
    /\ LET out == next(PoolNow) IN
       /\ SetPool(out.pool)
       /\ poolCall' = "next"
       /\ poolPath' = out.ret.kind
       /\ poolRet' = out.ret
       /\ drawn' = IF out.ret.kind = "tx"
                   THEN [drawn EXCEPT ![out.ret.tx.public_key] = out.ret.tx.nonce]
                   ELSE drawn
       /\ window' = IF out.ret.kind = "tx"
                    THEN Drawn(IF restart THEN FreshWindow(PoolNow) ELSE window,
                               out.ret.tx.public_key, out.pool)
                    ELSE FreshWindow(out.pool)

InitPool == InitTree(S1Root)

NextPool ==
    \/ \E tx \in Transactions : Add(tx)
    \/ \E public \in PublicKeys, min \in 0..(MaxNonce + 1) : Retain(public, min)
    \/ \E restart \in BOOLEAN : NextTransaction(restart)

SpecPool == InitPool /\ [][NextPool]_vars

\* -------------------------------------------------------------- SpecOracle
StateNow ==
    State(builders, TreeNow, finalize_frame_block_proposal_min, frame_block_proposal_count)
ResultNow == StateTransitionResult(processed_nonces, invalid_txs, generated_events)

\* the loop of execute_state_transition takes tx, the next transaction of txs
ExecuteTransaction(tx) ==
    /\ halted = "no"
    /\ taken < MaxBatch
    /\ \E turn \in {ExecuteLoop(StateNow, ResultNow, tx)} :
       /\ builders' = turn.state.builders
       /\ frame_block_proposal_count' = turn.state.frame_block_proposal_count
       /\ nodes' = turn.state.fork_tree.nodes
       /\ finalized_frame' = turn.state.fork_tree.finalized_frame
       /\ finalized_head' = turn.state.fork_tree.finalized_head
       /\ halted' = turn.how
       /\ processed_nonces' = turn.res.processed_nonces
       /\ invalid_txs' = turn.res.invalid_txs
       /\ generated_events' = turn.res.generated_events
       /\ taken' = taken + 1
       /\ applied' = [tx |-> tx, prepared |-> turn.prepared,
                      propose |-> turn.propose, finalize |-> turn.finalize]
       /\ IF turn.finalize.kind # "none"
          THEN call' = FinalizeCall /\ result' = turn.finalize
          ELSE IF turn.propose.kind # "none"
          THEN /\ call' = ProposeCall(tx.instruction.proposal.block_height,
                                      tx.instruction.proposal.parent_hash,
                                      tx.instruction.proposal.block_hash)
               /\ result' = turn.propose
          ELSE UNCHANGED <<call, result>>
    /\ UNCHANGED <<genesis, s1, finalize_frame_block_proposal_min>>
    /\ UNCHANGED poolVars
    /\ UNCHANGED <<swarmVars, actorVars, codecVars>>

\* execute_state_transition returns its StateTransitionResult; the next call
\* starts from empty results
ReturnResult ==
    /\ halted = "no"
    /\ applied # NoneApplied
    /\ processed_nonces' = EmptyMap
    /\ invalid_txs' = <<>>
    /\ generated_events' = <<>>
    /\ applied' = NoneApplied
    /\ UNCHANGED taken
    /\ UNCHANGED <<builders, finalize_frame_block_proposal_min, frame_block_proposal_count>>
    /\ UNCHANGED treeVars
    /\ UNCHANGED poolVars
    /\ UNCHANGED <<swarmVars, actorVars, codecVars>>

\* Actor::new: State::new(genesis_block_hash, finalize_frame_block_proposal_min)
InitOracle ==
    \E min \in 1..2 :
      /\ InitPoolVars
      /\ InitSwarmVars
      /\ InitActorVars
      /\ InitCodecVars
      /\ InitOracleVars(min)
      /\ genesis = GenesisDigest
      /\ nodes = NewState(GenesisDigest, min).fork_tree.nodes
      /\ finalized_frame = NewState(GenesisDigest, min).fork_tree.finalized_frame
      /\ finalized_head = NewState(GenesisDigest, min).fork_tree.finalized_head
      /\ halted = "no"
      /\ call = NewCall(GenesisDigest)
      /\ result = Ok(<<>>)
      /\ s1 = -1

NextOracle ==
    \/ \E tx \in OracleTransactions : ExecuteTransaction(tx)
    \/ ReturnResult

SpecOracle == InitOracle /\ [][NextOracle]_vars

\* ------------------------------------------------------------ SpecExecutor
\* execute_state_transition on a State in which a proposal can be counted:
\* both builders hold an account, and the tree has, besides the root, the
\* block S1A of the finalized frame, at which the walk of
\* increment_node_score stops.
ExecutorTree(head) ==
    Tree([h \in {S1Root, S1A} |->
            IF h = S1Root
            THEN [ForkChoiceTreeNode(0, 0, ZeroDigest, S1Root) EXCEPT
                     !.score = 1, !.children = <<S1A>>]
            ELSE [ForkChoiceTreeNode(2, 1, S1Root, S1A) EXCEPT !.score = 1]],
         2, head)

InitExecutor ==
    \E min \in 1..2, head \in {S1Root, S1A} :
      /\ InitPoolVars
      /\ InitSwarmVars
      /\ InitActorVars
      /\ InitCodecVars
      /\ builders = [pk \in PublicKeys |-> BuilderAccount(0)]
      /\ finalize_frame_block_proposal_min = min
      /\ frame_block_proposal_count = 0
      /\ processed_nonces = EmptyMap
      /\ invalid_txs = <<>>
      /\ generated_events = <<>>
      /\ taken = 0
      /\ applied = NoneApplied
      /\ genesis = S1Root
      /\ nodes = ExecutorTree(head).nodes
      /\ finalized_frame = ExecutorTree(head).finalized_frame
      /\ finalized_head = ExecutorTree(head).finalized_head
      /\ halted = "no"
      /\ call = NewCall(S1Root)
      /\ result = Ok(<<>>)
      /\ s1 = -1

SpecExecutor == InitExecutor /\ [][NextOracle]_vars

\* --------------------------------------------------------------- SpecSwarm
\* swarm execute_state_transition(state, txs, height), up to StateLayer::new:
\* the assert on height, then either the return of the call for the committed
\* height or the opening of the layer for the next one
BeginTransition(height) ==
    /\ swarm_halted = "no"
    /\ layer = NoLayer
    /\ LET state_commit == commit_metadata(adb_metadata) IN
       /\ swarm_call' = [op |-> "begin", height |-> height, committed |-> state_commit.height]
       /\ IF height # state_commit.height /\ height # state_commit.height + 1
          THEN /\ swarm_halted' = "panic"
               /\ UNCHANGED <<layer, layer_processed_nonces, layer_invalid_txs, swarm_result>>
          ELSE IF height = state_commit.height + 1
          THEN /\ state_commit.height < MaxCommits
               /\ layer' = [kind |-> "open", height |-> height,
                            state_start_op |-> adb_op_count, pending |-> EmptyMap]
               /\ layer_processed_nonces' = EmptyMap
               /\ layer_invalid_txs' = <<>>
               /\ UNCHANGED <<swarm_halted, swarm_result>>
          ELSE /\ swarm_result' = SwarmResult(StateRoot(adb, adb_metadata, adb_op_count),
                                              state_commit.start, adb_op_count,
                                              EmptyMap, <<>>)
               /\ layer_processed_nonces' = EmptyMap
               /\ layer_invalid_txs' = <<>>
               /\ UNCHANGED <<swarm_halted, layer>>
    /\ UNCHANGED <<adb, adb_metadata, adb_op_count, overflow_checks, swarm_taken>>
    /\ UNCHANGED <<treeVars, poolVars, oracleVars, actorVars, codecVars>>

\* one turn of the loop of StateLayer::execute
ExecuteLayerTransaction(tx) ==
    /\ swarm_halted = "no"
    /\ layer.kind = "open"
    /\ swarm_taken < MaxBatch
    /\ LET out == LayerExecuteLoop(adb, layer.pending, layer_processed_nonces,
                                   layer_invalid_txs, tx, overflow_checks)
       IN /\ layer' = [layer EXCEPT !.pending = out.pending]
          /\ layer_processed_nonces' = out.processed_nonces
          /\ layer_invalid_txs' = out.invalid_txs
          /\ swarm_halted' = out.how
          /\ swarm_call' = [op |-> "execute", tx |-> tx, valid |-> out.valid]
    /\ swarm_taken' = swarm_taken + 1
    /\ UNCHANGED <<adb, adb_metadata, adb_op_count, overflow_checks, swarm_result>>
    /\ UNCHANGED <<treeVars, poolVars, oracleVars, actorVars, codecVars>>

\* the rest of execute_state_transition: state.apply(layer.commit(), ..), the
\* root, the end operation and the return
CommitLayer ==
    /\ swarm_halted = "no"
    /\ layer.kind = "open"
    /\ LET out == StateApply(adb, adb_op_count, layer.pending,
                             CommitMetadata(layer.height, layer.state_start_op))
       IN /\ adb' = out.store
          /\ adb_metadata' = out.metadata
          /\ adb_op_count' = out.ops
          /\ swarm_result' = SwarmResult(StateRoot(out.store, out.metadata, out.ops),
                                         layer.state_start_op, out.ops,
                                         layer_processed_nonces, layer_invalid_txs)
    /\ layer' = NoLayer
    /\ swarm_call' = [op |-> "commit", height |-> layer.height]
    /\ UNCHANGED <<layer_processed_nonces, layer_invalid_txs>>
    /\ UNCHANGED <<overflow_checks, swarm_taken, swarm_halted>>
    /\ UNCHANGED <<treeVars, poolVars, oracleVars, actorVars, codecVars>>

\* the accounts a State is opened with, written by State::apply at height 0
SeedAccounts ==
    {[pk \in {"P"} |-> ValueAccount(Account(0, 2))]} \cup
    {[pk \in PublicKeys |->
         ValueAccount(IF pk = "P" THEN Account(0, 2) ELSE Account(0, bread))] :
        bread \in {1, U64_MAX}}

InitSwarm ==
    \E seed \in SeedAccounts, checks \in BOOLEAN :
      /\ InitPoolVars
      /\ InitOracleVars(1)
      /\ InitActorVars
      /\ InitCodecVars
      /\ genesis = GenesisDigest
      /\ nodes = NewTree(GenesisDigest).nodes
      /\ finalized_frame = NewTree(GenesisDigest).finalized_frame
      /\ finalized_head = NewTree(GenesisDigest).finalized_head
      /\ halted = "no"
      /\ call = NewCall(GenesisDigest)
      /\ result = Ok(<<>>)
      /\ s1 = -1
      /\ adb = StateApply(EmptyMap, 0, [pk \in DOMAIN seed |-> Update(seed[pk])],
                          CommitMetadata(0, 0)).store
      /\ adb_metadata = ValueCommitMetadata(CommitMetadata(0, 0))
      /\ adb_op_count = Cardinality(DOMAIN seed) + 1
      /\ overflow_checks = checks
      /\ layer = NoLayer
      /\ layer_processed_nonces = EmptyMap
      /\ layer_invalid_txs = <<>>
      /\ swarm_taken = 0
      /\ swarm_halted = "no"
      /\ swarm_call = [op |-> "new"]
      /\ swarm_result = NoSwarmResult

NextSwarm ==
    \/ \E height \in 0..(MaxCommits + 1) : BeginTransition(height)
    \/ \E tx \in SwarmTransactions : ExecuteLayerTransaction(tx)
    \/ CommitLayer

SpecSwarm == InitSwarm /\ [][NextSwarm]_vars

\* --------------------------------------------------------------- SpecActor
\* Actor::run, tx_receiver.recv() gave a message that decodes to tx
Receive(tx) ==
    /\ actor_halted = "no"
    /\ LET out == add(PoolNow, tx) IN
       /\ Len(out.queue) <= MaxQueue
       /\ transactions' = out.transactions
       /\ tracked' = out.tracked
       /\ queue' = out.queue
    /\ actor_call' = [op |-> "receive", tx |-> tx]
    /\ UNCHANGED <<poolCall, poolPath, poolRet, drawn, window>>
    /\ UNCHANGED <<block_number, sent, actor_halted>>
    /\ UNCHANGED <<treeVars, oracleVars, swarmVars, codecVars>>

\* Actor::run, tx_receiver.recv() gave a message that does not decode
ReceiveUndecodable ==
    /\ actor_halted = "no"
    /\ actor_halted' = "todo"
    /\ actor_call' = [op |-> "undecodable"]
    /\ UNCHANGED <<block_number, sent>>
    /\ UNCHANGED <<treeVars, poolVars, oracleVars, swarmVars, codecVars>>

\* Actor::run, tx_receiver.recv() failed
ReceiveError ==
    /\ actor_halted = "no"
    /\ actor_halted' = "todo"
    /\ actor_call' = [op |-> "recv_error"]
    /\ UNCHANGED <<block_number, sent>>
    /\ UNCHANGED <<treeVars, poolVars, oracleVars, swarmVars, codecVars>>

\* Actor::run, the block period has passed: Actor::mint_block
Tick ==
    /\ actor_halted = "no"
    /\ block_number < MaxBlocks
    /\ \E minted \in {mint_block(PoolNow, StateNow, block_number)} :
          /\ transactions' = minted.pool.transactions
          /\ tracked' = minted.pool.tracked
          /\ queue' = minted.pool.queue
          /\ actor_halted' = minted.how
          /\ IF minted.ran
             THEN /\ builders' = minted.state.builders
                  /\ frame_block_proposal_count' = minted.state.frame_block_proposal_count
                  /\ nodes' = minted.state.fork_tree.nodes
                  /\ finalized_frame' = minted.state.fork_tree.finalized_frame
                  /\ finalized_head' = minted.state.fork_tree.finalized_head
                  /\ halted' = minted.how
                  /\ processed_nonces' = minted.res.processed_nonces
                  /\ invalid_txs' = minted.res.invalid_txs
                  /\ generated_events' = minted.res.generated_events
             ELSE UNCHANGED <<builders, frame_block_proposal_count, nodes, finalized_frame,
                              finalized_head, halted, processed_nonces, invalid_txs,
                              generated_events>>
          /\ block_number' = minted.block_number
          /\ sent' = sent \o minted.broadcast
          /\ actor_call' = [op |-> "tick", txs |-> minted.txs,
                            events |-> IF minted.how = "no" THEN minted.res.generated_events
                                       ELSE <<>>]
    /\ UNCHANGED <<genesis, call, result, s1>>
    /\ UNCHANGED <<finalize_frame_block_proposal_min, taken, applied>>
    /\ UNCHANGED <<poolCall, poolPath, poolRet, drawn, window>>
    /\ UNCHANGED <<swarmVars, codecVars>>

NextActor ==
    \/ \E tx \in ActorTransactions : Receive(tx)
    \/ ReceiveUndecodable
    \/ ReceiveError
    \/ Tick

\* Actor::new
InitActor ==
    \E min \in 1..2 :
      /\ InitPoolVars
      /\ InitOracleVars(min)
      /\ InitSwarmVars
      /\ InitActorVars
      /\ InitCodecVars
      /\ genesis = GenesisDigest
      /\ nodes = NewState(GenesisDigest, min).fork_tree.nodes
      /\ finalized_frame = NewState(GenesisDigest, min).fork_tree.finalized_frame
      /\ finalized_head = NewState(GenesisDigest, min).fork_tree.finalized_head
      /\ halted = "no"
      /\ call = NewCall(GenesisDigest)
      /\ result = Ok(<<>>)
      /\ s1 = -1

SpecActor == InitActor /\ [][NextActor]_vars

\* ---------------------------------------------------------------- SpecMint
\* the actor on a State in which proposals can be accepted, that of
\* SpecExecutor
SpecMint == InitExecutor /\ [][NextActor]_vars

\* --------------------------------------------------------------- SpecCodec
CodecFields == {85 * k : k \in 0..MaxField}
CodecValues ==
    {ValueAccount(Account(nonce, bread)) : nonce \in CodecFields, bread \in CodecFields}
    \cup {ValueCommitMetadata(CommitMetadata(height, start)) :
             height \in CodecFields, start \in CodecFields}

\* Value::write into an empty buffer
WriteValue ==
    /\ codec_bytes = <<>>
    /\ codec_bytes' = ValueWrite(codec_value)
    /\ UNCHANGED <<codec_value, codec_read>>
    /\ UNCHANGED <<treeVars, poolVars, oracleVars, swarmVars, actorVars>>

\* Value::read_cfg of the bytes written
ReadValue ==
    /\ codec_bytes # <<>>
    /\ codec_read = NoValue
    /\ codec_read' = ValueRead(codec_bytes)
    /\ UNCHANGED <<codec_value, codec_bytes>>
    /\ UNCHANGED <<treeVars, poolVars, oracleVars, swarmVars, actorVars>>

InitCodec ==
    \E value \in CodecValues :
      /\ InitPoolVars
      /\ InitOracleVars(1)
      /\ InitSwarmVars
      /\ InitActorVars
      /\ genesis = GenesisDigest
      /\ nodes = NewTree(GenesisDigest).nodes
      /\ finalized_frame = NewTree(GenesisDigest).finalized_frame
      /\ finalized_head = NewTree(GenesisDigest).finalized_head
      /\ halted = "no"
      /\ call = NewCall(GenesisDigest)
      /\ result = Ok(<<>>)
      /\ s1 = -1
      /\ codec_value = value
      /\ codec_bytes = <<>>
      /\ codec_read = NoValue

NextCodec == WriteValue \/ ReadValue

SpecCodec == InitCodec /\ [][NextCodec]_vars

\* ------------------------------------------------------------ SpecSaturate
\* both executors on accounts whose nonce is at the maximum: the oracle State
\* of SpecExecutor with builder P at U64_MAX, the swarm State with the account
\* of P at U64_MAX
SaturateOracleTransactions ==
    [nonce : {U64_MAX},
     instruction : {ProposeBlock(BlockProposal(2, S1A, S1B))},
     public_key : PublicKeys]
SaturateSwarmTransactions ==
    [nonce : {U64_MAX},
     instruction : {TransferBread(1, "Q")},
     public_key : PublicKeys]

InitSaturate ==
    \E checks \in BOOLEAN :
      /\ InitPoolVars
      /\ InitActorVars
      /\ InitCodecVars
      /\ builders = [pk \in PublicKeys |->
                        BuilderAccount(IF pk = "P" THEN U64_MAX ELSE 0)]
      /\ finalize_frame_block_proposal_min = 1
      /\ frame_block_proposal_count = 0
      /\ processed_nonces = EmptyMap
      /\ invalid_txs = <<>>
      /\ generated_events = <<>>
      /\ taken = 0
      /\ applied = NoneApplied
      /\ genesis = S1Root
      /\ nodes = ExecutorTree(S1A).nodes
      /\ finalized_frame = ExecutorTree(S1A).finalized_frame
      /\ finalized_head = ExecutorTree(S1A).finalized_head
      /\ halted = "no"
      /\ call = NewCall(S1Root)
      /\ result = Ok(<<>>)
      /\ s1 = -1
      /\ adb = StateApply(EmptyMap, 0,
                          [pk \in {"P"} |-> Update(ValueAccount(Account(U64_MAX, 2)))],
                          CommitMetadata(0, 0)).store
      /\ adb_metadata = ValueCommitMetadata(CommitMetadata(0, 0))
      /\ adb_op_count = 2
      /\ overflow_checks = checks
      /\ layer = NoLayer
      /\ layer_processed_nonces = EmptyMap
      /\ layer_invalid_txs = <<>>
      /\ swarm_taken = 0
      /\ swarm_halted = "no"
      /\ swarm_call = [op |-> "new"]
      /\ swarm_result = NoSwarmResult

NextSaturate ==
    \/ \E tx \in SaturateOracleTransactions : ExecuteTransaction(tx)
    \/ ReturnResult
    \/ \E height \in 0..(MaxCommits + 1) : BeginTransition(height)
    \/ \E tx \in SaturateSwarmTransactions : ExecuteLayerTransaction(tx)
    \/ CommitLayer

SpecSaturate == InitSaturate /\ [][NextSaturate]_vars

\* ================================================= fork-choice tree claims
IsPropose(c) == c.op = "Propose"

\* C1: Propose(height, parent, hash) with hash not yet in the tree, parent in
\* the tree and height = parent.height + 1 returns success from every
\* reachable tree (the fresh one included): the new node is inserted with
\* frame = finalized_frame + 1 and appended to the parent's children, and the
\* Increment walk ends without looking up a digest that is not in nodes and
\* without walking for ever.
C1_ProposeNewSucceeds ==
    [][(/\ IsPropose(call')
        /\ call'.hash \notin DOMAIN nodes
        /\ call'.parent \in DOMAIN nodes
        /\ call'.height = nodes[call'.parent].block_height + 1)
       => (/\ result' = Ok(<<>>)
           /\ halted' = "no"
           /\ call'.hash \in DOMAIN nodes'
           /\ nodes'[call'.hash].block_frame = finalized_frame + 1
           /\ nodes'[call'.parent].children =
                  Append(nodes[call'.parent].children, call'.hash))]_vars

\* C4 as claimed: whatever the hash, Propose fails with InvalidParent iff
\* parent is not a node of the tree, and with InvalidHeight iff parent is a
\* node and height differs from parent.height + 1.
C4_RejectsWhateverHash ==
    [][IsPropose(call')
       => (/\ (result'.kind = "InvalidBlockParentHash")
                 <=> (call'.parent \notin DOMAIN nodes)
           /\ (result'.kind = "InvalidBlockHeight")
                 <=> (/\ call'.parent \in DOMAIN nodes
                      /\ call'.height # nodes[call'.parent].block_height + 1))]_vars

\* C4 amended: for a hash that is not yet a node of the tree, Propose fails
\* with InvalidParent (carrying the parent) iff parent is not a node, and with
\* InvalidHeight (carrying the height) iff parent is a node and height differs
\* from parent.height + 1.
C4_RejectsNewHash ==
    [][(IsPropose(call') /\ call'.hash \notin DOMAIN nodes)
       => (/\ (result'.kind = "InvalidBlockParentHash")
                 <=> (call'.parent \notin DOMAIN nodes)
           /\ (result'.kind = "InvalidBlockHeight")
                 <=> (/\ call'.parent \in DOMAIN nodes
                      /\ call'.height # nodes[call'.parent].block_height + 1)
           /\ (result'.kind = "InvalidBlockParentHash")
                 => result'.val = <<call'.parent>>
           /\ (result'.kind = "InvalidBlockHeight")
                 => result'.val = <<call'.height>>)]_vars

\* a Propose of a new hash under the root was rejected for its height
C4_Witness ==
    /\ IsPropose(call)
    /\ call.hash \notin DOMAIN nodes
    /\ call.parent \in DOMAIN nodes
    /\ result.kind = "InvalidBlockHeight"

\* The nodes the claim's walk increments: from h upward, up to but excluding
\* the first node whose frame equals ff.
RECURSIVE PathUp(_, _, _, _)
PathUp(ns, ff, h, fuel) ==
    IF fuel = 0 \/ h \notin DOMAIN ns THEN {}
    ELSE IF ns[h].block_frame = ff THEN {}
    ELSE {h} \cup PathUp(ns, ff, ns[h].block_parent, fuel - 1)

\* C5: Propose with a hash that is already a node returns success, adds no
\* node and no children entry, and adds exactly one to the score of each node
\* on the parent path from the named node up to but excluding the first node
\* whose frame equals finalized_frame; every other score is unchanged.
C5_DuplicateAddsOne ==
    [][(IsPropose(call') /\ call'.hash \in DOMAIN nodes)
       => (/\ result' = Ok(<<>>)
           /\ halted' = "no"
           /\ DOMAIN nodes' = DOMAIN nodes
           /\ \A h \in DOMAIN nodes :
                /\ nodes'[h].children = nodes[h].children
                /\ nodes'[h].score = nodes[h].score +
                     (IF h \in PathUp(nodes, finalized_frame, call'.hash,
                                      Cardinality(DOMAIN nodes))
                      THEN 1 ELSE 0))]_vars

\* C6: a Propose that fails with InvalidParent or InvalidHeight leaves nodes
\* (scores and children lists included), finalized_frame and finalized_head
\* as they were.
C6_RejectedProposeNoChange ==
    [][(IsPropose(call')
        /\ result'.kind \in {"InvalidBlockParentHash", "InvalidBlockHeight"})
       => (/\ nodes' = nodes
           /\ finalized_frame' = finalized_frame
           /\ finalized_head' = finalized_head)]_vars

\* a Propose was rejected for its height under an existing parent
C6_Witness ==
    /\ IsPropose(call)
    /\ result.kind = "InvalidBlockHeight"
    /\ call.parent \in DOMAIN nodes
    /\ halted = "no"

Occurrences(seq, x) == Cardinality({i \in 1..Len(seq) : seq[i] = x})

\* C7: in every reachable tree the root has frame 0 and height 0; every
\* non-root node's parent is a node with height one less; every non-root node
\* occurs exactly once in its parent's children and in no other children list.
C7_TreeShape ==
    /\ genesis \in DOMAIN nodes
    /\ nodes[genesis].block_frame = 0
    /\ nodes[genesis].block_height = 0
    /\ \A h \in DOMAIN nodes \ {genesis} :
         /\ nodes[h].block_parent \in DOMAIN nodes
         /\ nodes[h].block_height = nodes[nodes[h].block_parent].block_height + 1
         /\ \A p \in DOMAIN nodes :
              Occurrences(nodes[p].children, h) =
                 (IF p = nodes[h].block_parent THEN 1 ELSE 0)

\* a tree that holds a node other than the root
C7_Witness ==
    \E h \in DOMAIN nodes \ {genesis} :
        /\ call = ProposeCall(nodes[h].block_height, nodes[h].block_parent, h)
        /\ nodes[h].block_parent = genesis

\* C8: on a fresh tree with root R, Propose(1, R, A), Propose(1, R, B),
\* Propose(2, A, C) all return and leave score(A) = 2 and score(B) = 1; the
\* first FinalizeFrame then sets finalized_head = A and the second one C.
C8_ScenarioS1 ==
    /\ s1 >= 1 => (halted = "no" /\ result.kind = "Ok")
    /\ s1 = 3 => (nodes[S1A].score = 2 /\ nodes[S1B].score = 1)
    /\ s1 = 4 => finalized_head = S1A
    /\ s1 = 5 => finalized_head = S1C

\* ---- FinalizeFrame as claimed
ScoreOf(ns, seq, i) == ns[seq[i]].score
\* the children that are strictly heavier than every sibling
Uncontested(ns, seq) ==
    {i \in 1..Len(seq) : \A j \in 1..Len(seq) : j # i => ScoreOf(ns, seq, i) > ScoreOf(ns, seq, j)}
\* the children that carry the maximum score
AtMaximum(ns, seq) ==
    {i \in 1..Len(seq) : \A j \in 1..Len(seq) : ScoreOf(ns, seq, i) >= ScoreOf(ns, seq, j)}

RECURSIVE ClaimedDescent(_, _)
ClaimedDescent(ns, cur) ==
    LET seq == ns[cur].children IN
    IF Len(seq) = 0 THEN [kind |-> "Ok", at |-> cur]
    ELSE IF Len(seq) = 1 THEN ClaimedDescent(ns, seq[1])
    ELSE IF Cardinality(AtMaximum(ns, seq)) >= 2 THEN [kind |-> "UnsolvableFork", at |-> cur]
    ELSE IF Uncontested(ns, seq) # {}
         THEN ClaimedDescent(ns, seq[CHOOSE i \in Uncontested(ns, seq) : TRUE])
    ELSE [kind |-> "Unspecified", at |-> cur]

\* C2: FinalizeFrame descends from finalized_head: through an only child
\* whatever its score, at a fork to the child strictly heavier than every
\* sibling; it fails with UnsolvableFork(current) exactly when two or more
\* children share the maximum; at a leaf it adds one to finalized_frame, sets
\* finalized_head to the leaf and returns (finalized_frame, finalized_head).
C2_FinalizeDescent ==
    [][(call'.op = "Finalize")
       => LET claimed == ClaimedDescent(nodes, finalized_head) IN
          /\ claimed.kind = "Ok" =>
                /\ result' = Ok(<<finalized_frame + 1, claimed.at>>)
                /\ finalized_frame' = finalized_frame + 1
                /\ finalized_head' = claimed.at
          /\ claimed.kind = "UnsolvableFork" =>
                result' = Err("UnsolvableFork", <<claimed.at>>)
          /\ claimed.kind \in {"Ok", "UnsolvableFork"}
          /\ nodes' = nodes]_vars

\* FinalizeFrame succeeded and the new head was chosen among two or more
\* children, below an only child or not
C2_Witness ==
    /\ call.op = "Finalize"
    /\ result.kind = "Ok"
    /\ finalized_head # genesis
    /\ Len(nodes[nodes[finalized_head].block_parent].children) >= 2

\* C3: when FinalizeFrame fails with UnsolvableFork the tree is as before the
\* call: nodes (scores and children), finalized_frame and finalized_head.
C3_UnsolvableForkNoChange ==
    [][(call'.op = "Finalize" /\ result'.kind = "UnsolvableFork")
       => (/\ nodes' = nodes
           /\ finalized_frame' = finalized_frame
           /\ finalized_head' = finalized_head)]_vars

\* FinalizeFrame failed at a tied node that lies below finalized_head
C3_Witness ==
    /\ call.op = "Finalize"
    /\ result.kind = "UnsolvableFork"
    /\ result.val[1] # finalized_head
    /\ nodes[result.val[1]].block_parent = finalized_head
    /\ Len(nodes[finalized_head].children) = 1

\* ====================================================== mempool draw claims
\* C9: in any run of consecutive Next draws, the numbers of transactions
\* drawn for two originators whose backlogs are non-empty from before the
\* first draw until after the last differ by at most 1.
C9_FairDraws ==
    \A p \in window.live, q \in window.live :
        window.count[p] - window.count[q] <= 1

\* C10: every Next that returns a transaction returns the one tracked at the
\* smallest nonce of the originator it serves; and the nonce is greater than
\* the nonce of every transaction returned for that originator since the last
\* Add.
C10_SmallestNonceFirst ==
    [][(poolCall' = "next" /\ poolRet'.kind = "tx")
       => LET tx == poolRet'.tx
              pk == tx.public_key
          IN /\ pk \in DOMAIN tracked
             /\ tx.nonce \in DOMAIN tracked[pk]
             /\ \A n \in DOMAIN tracked[pk] : tx.nonce <= n
             /\ tracked[pk][tx.nonce] = Digest(tx)
             /\ transactions[Digest(tx)] = tx
             /\ drawn[pk] < tx.nonce]_vars

\* Next served an originator for the second time in one run of draws, and the
\* originator still has a later nonce pending
C10_Witness ==
    /\ poolCall = "next"
    /\ poolRet.kind = "tx"
    /\ window.count[poolRet.tx.public_key] >= 2
    /\ poolRet.tx.public_key \in DOMAIN tracked
    /\ \A n \in DOMAIN tracked[poolRet.tx.public_key] : n > poolRet.tx.nonce

\* ============================================================ mempool claims
\* nonces tracked for pk
Held(pk) == IF pk \in DOMAIN tracked THEN DOMAIN tracked[pk] ELSE {}
\* add(tx) gets as far as inserting tx
Inserts(tx) ==
    /\ Cardinality(DOMAIN transactions) < MAX_TRANSACTIONS
    /\ Digest(tx) \notin DOMAIN transactions
    /\ tx.nonce \notin Held(tx.public_key)

\* C11: an Add that brings an originator's tracked nonces above MAX_BACKLOG
\* evicts exactly one entry, the one with the largest nonce of that
\* originator (possibly the transaction just added), from tracked and from
\* transactions, and keeps every other entry; so adding nonces 0..MAX_BACKLOG
\* for one originator keeps 0..MAX_BACKLOG - 1.
C11_EvictsLargestNonce ==
    [][\A tx \in Transactions :
        (/\ poolCall' = "add"
         /\ Inserts(tx)
         /\ Cardinality(Held(tx.public_key)) >= MAX_BACKLOG
         /\ Add(tx)) =>
          LET pk == tx.public_key
              offered == Held(pk) \cup {tx.nonce}
              largest == CHOOSE n \in offered : \A o \in offered : o <= n
              digestAt(n) == IF n = tx.nonce THEN Digest(tx) ELSE tracked[pk][n]
          IN /\ pk \in DOMAIN tracked'
             /\ DOMAIN tracked'[pk] = offered \ {largest}
             /\ \A n \in offered \ {largest} : tracked'[pk][n] = digestAt(n)
             /\ DOMAIN transactions' =
                  (DOMAIN transactions \cup {Digest(tx)}) \ {digestAt(largest)}
             /\ \A d \in DOMAIN transactions' :
                  transactions'[d] = IF d = Digest(tx) THEN tx ELSE transactions[d]
             /\ \A o \in PublicKeys \ {pk} :
                  /\ (o \in DOMAIN tracked') = (o \in DOMAIN tracked)
                  /\ o \in DOMAIN tracked => tracked'[o] = tracked[o]]_vars
\* the last Add offered nonce MAX_BACKLOG on top of 0..MAX_BACKLOG - 1 and
\* was itself evicted
C11_Witness ==
    /\ poolCall = "add"
    /\ poolPath = "evicted_new"
    /\ \E pk \in DOMAIN tracked : DOMAIN tracked[pk] = 0..(MAX_BACKLOG - 1)

\* C12: in every reachable pool each originator has at most MAX_BACKLOG
\* tracked nonces and transactions holds at most MAX_TRANSACTIONS; an Add made
\* while the pool holds MAX_TRANSACTIONS transactions changes nothing.
C12_BacklogAndPoolCapped ==
    /\ [](/\ \A pk \in DOMAIN tracked : Cardinality(DOMAIN tracked[pk]) <= MAX_BACKLOG
          /\ Cardinality(DOMAIN transactions) <= MAX_TRANSACTIONS)
    /\ [][\A tx \in Transactions :
            (/\ poolCall' = "add"
             /\ Cardinality(DOMAIN transactions) = MAX_TRANSACTIONS
             /\ Add(tx)) =>
              UNCHANGED <<transactions, tracked, queue>>]_vars
\* an Add was turned away by a full pool in which an originator is at
\* MAX_BACKLOG
C12_Witness ==
    /\ poolCall = "add"
    /\ poolPath = "full"
    /\ Cardinality(DOMAIN transactions) = MAX_TRANSACTIONS
    /\ \E pk \in DOMAIN tracked : Cardinality(DOMAIN tracked[pk]) = MAX_BACKLOG

\* C13: an Add of a transaction whose digest is pending, or whose
\* (originator, nonce) slot is occupied, leaves transactions, tracked and queue
\* as they are; and Add(tx) twice gives the same pool as Add(tx) once.
C13_AddIdempotent ==
    \A tx \in Transactions :
      /\ (Digest(tx) \in DOMAIN transactions \/ tx.nonce \in Held(tx.public_key)) =>
            add(PoolNow, tx) = PoolNow
      /\ add(add(PoolNow, tx), tx) = add(PoolNow, tx)
\* the last Add met its slot occupied by a transaction with another digest
C13_Witness ==
    /\ poolCall = "add"
    /\ poolPath = "occupied"
    /\ Cardinality(DOMAIN transactions) < MAX_TRANSACTIONS

\* C14: from every reachable pool, Retain(pk, m) removes from tracked and
\* from transactions exactly the entries of pk with nonce < m; the entries of
\* pk with nonce >= m, every other originator's entries and queue are
\* unchanged; pk leaves tracked exactly when none of its entries remains.
C14_RetainRemovesBelowMin ==
    \A pk \in PublicKeys, min \in 0..(MaxNonce + 1) :
      LET after == retain(PoolNow, pk, min)
          kept == {n \in Held(pk) : n >= min}
          gone == {tracked[pk][n] : n \in Held(pk) \ kept}
      IN /\ after.queue = queue
         /\ DOMAIN after.transactions = DOMAIN transactions \ gone
         /\ \A d \in DOMAIN after.transactions : after.transactions[d] = transactions[d]
         /\ (pk \in DOMAIN after.tracked) = (kept # {})
         /\ kept # {} =>
              /\ DOMAIN after.tracked[pk] = kept
              /\ \A n \in kept : after.tracked[pk][n] = tracked[pk][n]
         /\ \A o \in PublicKeys \ {pk} :
              /\ (o \in DOMAIN after.tracked) = (o \in DOMAIN tracked)
              /\ o \in DOMAIN tracked => after.tracked[o] = tracked[o]
\* the last Retain removed some entries of its originator and kept others,
\* a second originator looking on
C14_Witness ==
    /\ poolCall = "retain"
    /\ poolPath = "trimmed"
    /\ Cardinality(DOMAIN tracked) = 2

TrackedDigests ==
    UNION {{tracked[pk][n] : n \in DOMAIN tracked[pk]} : pk \in DOMAIN tracked}

\* C15: in every reachable pool the digests held in the tracked maps are
\* exactly the keys of transactions, every transaction is tracked under its
\* originator and nonce, and no originator in tracked has an empty nonce map.
C15_TrackedMatchesTransactions ==
    /\ TrackedDigests = DOMAIN transactions
    /\ \A d \in DOMAIN transactions :
         /\ transactions[d].public_key \in DOMAIN tracked
         /\ transactions[d].nonce \in DOMAIN tracked[transactions[d].public_key]
         /\ tracked[transactions[d].public_key][transactions[d].nonce] = d
    /\ \A pk \in DOMAIN tracked : DOMAIN tracked[pk] # {}
\* a Retain has just emptied one originator while another still has entries
C15_Witness ==
    /\ poolCall = "retain"
    /\ poolPath = "emptied"
    /\ Cardinality(DOMAIN transactions) >= 2

\* C16: in every reachable pool every originator whose tracked map is
\* non-empty appears at least once in queue.
C16_BackloggedAreQueued ==
    \A pk \in Backlogged(PoolNow) : \E i \in 1..Len(queue) : queue[i] = pk
\* a draw has served an originator that still has entries and is queued again
C16_Witness ==
    /\ poolCall = "next"
    /\ poolRet.kind = "tx"
    /\ poolRet.tx.public_key \in Backlogged(PoolNow)
    /\ \E i \in 1..Len(queue) : queue[i] = poolRet.tx.public_key

\* ==================================================== oracle executor claims
\* the loop of execute_state_transition has just taken a transaction
TakesTransaction == taken' = taken + 1
\* create_node turns the proposal down: a new hash whose parent is not a node
\* or whose height is not the parent's plus one
Rejected(proposal) ==
    /\ proposal.block_hash \notin DOMAIN nodes
    /\ \/ proposal.parent_hash \notin DOMAIN nodes
       \/ proposal.block_height # nodes[proposal.parent_hash].block_height + 1

\* C17: a ProposeBlock transaction with the correct nonce whose proposal the
\* tree rejects (InvalidParent or InvalidHeight) still counts as valid at the
\* account level: builders[pk].nonce advances by one, processed_nonces[pk] =
\* tx.nonce + 1 is recorded, the transaction is not put in invalid_txs, and
\* frame_block_proposal_count and the tree are unchanged.
C17_RejectedProposalConsumesNonce ==
    [][(/\ TakesTransaction
        /\ applied'.tx.public_key \in DOMAIN builders
        /\ builders[applied'.tx.public_key].nonce = applied'.tx.nonce
        /\ Rejected(applied'.tx.instruction.proposal)) =>
          LET tx == applied'.tx IN
          /\ builders'[tx.public_key].nonce = builders[tx.public_key].nonce + 1
          /\ tx.public_key \in DOMAIN processed_nonces'
          /\ processed_nonces'[tx.public_key] = tx.nonce + 1
          /\ invalid_txs' = invalid_txs
          /\ frame_block_proposal_count' = frame_block_proposal_count
          /\ UNCHANGED <<nodes, finalized_frame, finalized_head>>]_vars

\* C18: a transaction from an originator with no entry in builders is checked
\* against a default account with nonce 0: with tx.nonce = 0 it passes the
\* nonce check and builders[pk].nonce becomes 1, so it is not reported in
\* invalid_txs for want of an account.
C18_UnknownBuilderStartsAtZero ==
    [][(/\ TakesTransaction
        /\ applied'.tx.public_key \notin DOMAIN builders
        /\ applied'.tx.nonce = 0) =>
          /\ applied'.prepared
          /\ applied'.tx.public_key \in DOMAIN builders'
          /\ builders'[applied'.tx.public_key].nonce = 1]_vars

C20_ProposalCount ==
    [][/\ ~TakesTransaction =>
            /\ frame_block_proposal_count' = frame_block_proposal_count
            /\ finalized_frame' = finalized_frame
       /\ TakesTransaction =>
            LET proposedOk == applied'.propose.kind = "Ok"
                finalizedOk == applied'.finalize.kind = "Ok"
            IN /\ finalizedOk = (finalized_frame' = finalized_frame + 1)
               /\ finalizedOk => applied'.finalize.val = <<finalized_frame', finalized_head'>>
               /\ frame_block_proposal_count' =
                    IF finalizedOk THEN 0
                    ELSE IF proposedOk THEN frame_block_proposal_count + 1
                    ELSE frame_block_proposal_count
               /\ applied'.finalize.kind # "none" =>
                    /\ proposedOk
                    /\ frame_block_proposal_count + 1 >= finalize_frame_block_proposal_min
               /\ generated_events' =
                    IF finalizedOk
                    THEN Append(generated_events,
                                FrameFinalized(finalized_frame', finalized_head'))
                    ELSE generated_events]_vars
\* two proposals were counted, the second brought the count to the minimum of
\* 2, the frame was finalized, the count is back at 0 and one event is out
C20_Witness ==
    /\ finalize_frame_block_proposal_min = 2
    /\ applied.finalize.kind = "Ok"
    /\ frame_block_proposal_count = 0
    /\ Len(generated_events) = 1
    /\ generated_events[1] = FrameFinalized(finalized_frame, finalized_head)
    /\ DOMAIN processed_nonces # {}

LayerView(pk) == layer_get(adb, layer.pending, pk)
ViewAccount(pk) == IF LayerView(pk).kind = "Account" THEN LayerView(pk).account
                   ELSE DefaultAccount
\* the loop of StateLayer::execute has just taken tx and gone on
ExecutesLayer(tx) ==
    /\ layer.kind = "open"
    /\ swarm_taken' = swarm_taken + 1
    /\ swarm_call'.tx = tx
\* tx is valid where the loop stands: the sender's account exists, its nonce
\* is tx.nonce and its bread covers the amount
ValidTransfer(tx) ==
    /\ LayerView(tx.public_key).kind = "Account"
    /\ ViewAccount(tx.public_key).nonce = tx.nonce
    /\ ViewAccount(tx.public_key).bread >= tx.instruction.amount
RECURSIVE SumBread(_, _)
SumBread(accounts, keys) ==
    IF keys = {} THEN 0
    ELSE LET k == CHOOSE x \in keys : TRUE
         IN accounts[k].account.bread + SumBread(accounts, keys \ {k})
\* the bread of all committed accounts
TotalBread(accounts) == SumBread(accounts, DOMAIN accounts)

\* C21: for every valid TransferBread{amount, to} (sender account exists,
\* account nonce = tx.nonce, bread >= amount) and every choice of to, the
\* sender's nonce becomes tx.nonce + 1, the sender's bread is reduced by
\* amount and the receiver's bread is increased by amount (a sender that is
\* its own receiver ends with the bread it had), the receiver being created
\* with nonce 0 when it was absent, and the commit of the batch writes exactly
\* the staged accounts. Stated where all bread fits in a u64, so that no credit
\* can overflow.
C21_ValidTransferMovesBread ==
    [][/\ \A tx \in SwarmTransactions :
            (/\ ExecutesLayer(tx)
             /\ ValidTransfer(tx)
             /\ TotalBread(adb) <= U64_MAX) =>
               LET from == tx.public_key
                   to == tx.instruction.to
                   amount == tx.instruction.amount
               IN /\ swarm_halted' = "no"
                  /\ swarm_call'.valid
                  /\ ViewAccount(from)'.nonce = tx.nonce + 1
                  /\ IF to = from
                     THEN ViewAccount(from)'.bread = ViewAccount(from).bread
                     ELSE /\ ViewAccount(from)'.bread = ViewAccount(from).bread - amount
                          /\ ViewAccount(to)'.bread = ViewAccount(to).bread + amount
                          /\ ViewAccount(to)'.nonce = ViewAccount(to).nonce
       /\ swarm_call'.op = "commit" =>
            \A pk \in PublicKeys : StateGet(adb', pk) = LayerView(pk)]_vars

\* C22: a transaction that is invalid (sender account absent, nonce mismatch,
\* or sender.bread < amount) stages no write: the overlay, and with it every
\* account a later read or the commit sees, is what it was before the
\* transaction; the transaction is appended to invalid_txs and
\* processed_nonces gets no entry.
C22_InvalidStagesNothing ==
    [][\A tx \in SwarmTransactions :
          (ExecutesLayer(tx) /\ ~ValidTransfer(tx)) =>
             /\ swarm_halted' = "no"
             /\ ~swarm_call'.valid
             /\ layer'.pending = layer.pending
             /\ \A pk \in PublicKeys : LayerView(pk)' = LayerView(pk)
             /\ layer_invalid_txs' = Append(layer_invalid_txs, tx)
             /\ layer_processed_nonces' = layer_processed_nonces]_vars

\* an invalid transaction was turned down after an earlier valid one of the
\* same batch had staged its writes, each kind of invalidity in its turn
C22_Witness ==
    /\ swarm_call.op = "execute"
    /\ ~swarm_call.valid
    /\ swarm_halted = "no"
    /\ DOMAIN layer.pending # {}
    /\ Len(layer_invalid_txs) >= 1
    /\ swarm_call.tx.public_key \in DOMAIN layer.pending
    /\ layer.pending[swarm_call.tx.public_key].value.account.nonce = swarm_call.tx.nonce
    /\ layer.pending[swarm_call.tx.public_key].value.account.bread
          < swarm_call.tx.instruction.amount

\* C23: within one batch every read goes through the overlay: a transaction
\* is valid exactly when the staged values make it so; transactions of one
\* sender with nonces n and n+1, in that order, are both valid when the bread
\* covers both; and the committed store is not written while the batch is
\* being processed.
C23_ReadsThroughOverlay ==
    [][/\ \A tx \in SwarmTransactions :
            (ExecutesLayer(tx) /\ swarm_halted' = "no") =>
               (swarm_call'.valid <=> ValidTransfer(tx))
       /\ \A tx \in SwarmTransactions :
            (/\ ExecutesLayer(tx)
             /\ swarm_call.op = "execute"
             /\ swarm_call.valid
             /\ swarm_call.tx.public_key = tx.public_key
             /\ tx.nonce = swarm_call.tx.nonce + 1
             /\ ViewAccount(tx.public_key).bread >= tx.instruction.amount
             /\ TotalBread(adb) <= U64_MAX) =>
               swarm_call'.valid
       /\ (layer.kind = "open" /\ layer'.kind = "open") =>
            UNCHANGED <<adb, adb_metadata, adb_op_count>>]_vars

\* C24: a call with height equal to the committed height executes no
\* transaction and performs no write and no commit (accounts, committed
\* height, commit start and operation count unchanged; processed_nonces and
\* invalid_txs empty; returned root = current root); a call with height =
\* committed height + 1 commits and sets the committed height to height; a
\* call with any other height aborts without changing the state.
C24_HeightDecidesCommit ==
    [][/\ swarm_call'.op = "begin" =>
            /\ UNCHANGED <<adb, adb_metadata, adb_op_count, swarm_taken>>
            /\ swarm_call'.committed = commit_metadata(adb_metadata).height
            /\ IF swarm_call'.height = swarm_call'.committed
               THEN /\ swarm_halted' = "no"
                    /\ layer' = NoLayer
                    /\ swarm_result'.processed_nonces = EmptyMap
                    /\ swarm_result'.invalid_txs = <<>>
                    /\ swarm_result'.state_root = StateRoot(adb, adb_metadata, adb_op_count)
                    /\ swarm_result'.state_start_op = commit_metadata(adb_metadata).start
                    /\ swarm_result'.state_end_op = adb_op_count
               ELSE IF swarm_call'.height = swarm_call'.committed + 1
               THEN /\ swarm_halted' = "no"
                    /\ layer'.kind = "open"
                    /\ layer'.height = swarm_call'.height
               ELSE /\ swarm_halted' = "panic"
                    /\ layer' = NoLayer
                    /\ UNCHANGED swarm_result
       /\ swarm_call'.op = "commit" =>
            /\ commit_metadata(adb_metadata').height = commit_metadata(adb_metadata).height + 1
            /\ commit_metadata(adb_metadata').height = layer.height
            /\ commit_metadata(adb_metadata').start = adb_op_count
            /\ adb_op_count' > adb_op_count
       /\ swarm_halted = "panic" => UNCHANGED <<adb, adb_metadata, adb_op_count>>]_vars

\* after a batch with a transaction was committed at height 1 or more, a call
\* for the same height returned
C24_Witness ==
    /\ swarm_call.op = "begin"
    /\ swarm_call.height = swarm_call.committed
    /\ swarm_call.height >= 1
    /\ swarm_taken >= 1
    /\ swarm_halted = "no"
    /\ swarm_result.state_end_op = adb_op_count

\* C28: the sum of bread over all accounts is the same before and after every
\* executed batch, for every batch of TransferBread transactions, those whose
\* receiver is their own sender included. Stated where all bread fits in a
\* u64, so that no credit to another account can overflow.
C28_BreadConserved ==
    [][(swarm_call'.op = "commit" /\ TotalBread(adb) <= U64_MAX) =>
          TotalBread(adb') = TotalBread(adb)]_vars

\* ========================================================= oracle actor claims
\* C25: on every block tick, BlockMinted(n) is broadcast before every
\* FrameFinalized event generated by the execution of that block, and those
\* FrameFinalized events are broadcast in the order the executor generated
\* them; a tick that does not return broadcasts nothing.
C25_BlockMintedFirst ==
    [][actor_call'.op = "tick" =>
         LET events == execute_state_transition(StateNow, Drain(PoolNow).txs).res.generated_events
             new == SubSeq(sent', Len(sent) + 1, Len(sent'))
         IN IF actor_halted' # "no" THEN sent' = sent
            ELSE /\ block_number' = block_number + 1
                 /\ Len(new) = 1 + Len(events)
                 /\ new[1].kind = "BlockMinted"
                 /\ new[1].block_number = block_number'
                 /\ \A i \in 1..Len(events) :
                       /\ new[i + 1].kind = "FrameFinalized"
                       /\ new[i + 1].frame.frame_number = events[i].frame_number
                       /\ new[i + 1].frame.chain_head = events[i].chain_head]_vars

\* a tick has broadcast a block and, after it, two finalized frames
C25_Witness ==
    /\ actor_call.op = "tick"
    /\ actor_halted = "no"
    /\ Len(actor_call.events) >= 2
    /\ Len(sent) >= 3
    /\ sent[Len(sent)].kind = "FrameFinalized"
    /\ sent[Len(sent) - Len(actor_call.events)].kind = "BlockMinted"

\* C26: an inbound message that fails to decode as a Transaction is
\* discarded: the mempool and the oracle state are unchanged and the actor
\* loop goes on to handle later messages and block ticks.
C26_UndecodableDiscarded ==
    [][actor_call'.op = "undecodable" =>
         /\ actor_halted' = "no"
         /\ UNCHANGED <<transactions, tracked, queue>>
         /\ UNCHANGED <<builders, nodes, finalized_frame, finalized_head,
                        frame_block_proposal_count, block_number, sent>>]_vars

\* ========================================================= swarm codec claims
\* C30: every Value, Account and CommitMetadata{height, start} alike, survives
\* an encode/decode round trip: Write emits exactly encode_size bytes and Read
\* of those bytes returns the original value, the start field of
\* CommitMetadata included, and leaves nothing unread.
C30_ValueRoundTrip ==
    /\ codec_bytes # <<>> => Len(codec_bytes) = ValueEncodeSize(codec_value)
    /\ codec_read # NoValue => codec_read = ReadOk(codec_value, <<>>)

\* ================================================== finalization order claims
\* h is anc or lies below it, following block_parent
RECURSIVE DescendsFrom(_, _, _, _)
DescendsFrom(ns, h, anc, fuel) ==
    IF h = anc THEN TRUE
    ELSE IF fuel = 0 \/ h \notin DOMAIN ns THEN FALSE
    ELSE DescendsFrom(ns, ns[h].block_parent, anc, fuel - 1)

\* C27: every successful FinalizeFrame increases finalized_frame by exactly
\* one, returns that frame with the new finalized_head, and sets finalized_head
\* to the previous finalized_head or one of its descendants, at a height not
\* below the previous one; the first frame number returned is 2.
C27_FinalizeAdvancesAlongChain ==
    [][(call'.op = "Finalize" /\ result'.kind = "Ok") =>
          /\ finalized_frame' = finalized_frame + 1
          /\ result'.val = <<finalized_frame + 1, finalized_head'>>
          /\ call.op = "New" => result'.val[1] = 2
          /\ nodes' = nodes
          /\ DescendsFrom(nodes, finalized_head', finalized_head, Cardinality(DOMAIN nodes))
          /\ nodes[finalized_head'].block_height >= nodes[finalized_head].block_height]_vars
\* two finalizations in a row have succeeded and the head has left the root
C27_Witness ==
    /\ call.op = "Finalize"
    /\ result.kind = "Ok"
    /\ finalized_frame = 3
    /\ nodes[finalized_head].block_height >= 2

\* ====================================================== mempool drain claims
\* C29: from every reachable pool, repeated Next calls end with absent; Next
\* returns absent only when transactions is empty; the drain returns every
\* pending transaction exactly once and leaves transactions and tracked empty.
C29_DrainReturnsEachOnce ==
    LET drained == Drain(PoolNow) IN
    /\ drained.how = "no"
    /\ Len(drained.txs) = Cardinality(DOMAIN transactions)
    /\ {drained.txs[i] : i \in 1..Len(drained.txs)} =
          {transactions[d] : d \in DOMAIN transactions}
    /\ drained.pool.transactions = EmptyMap
    /\ drained.pool.tracked = EmptyMap
    /\ next(PoolNow).ret.kind = "absent" => DOMAIN transactions = {}
\* a run of draws served one originator at least twice and then ended with
\* absent
C29_Witness ==
    /\ poolCall = "next"
    /\ poolRet.kind = "absent"
    /\ \E pk \in PublicKeys : drawn[pk] >= 1
    /\ DOMAIN transactions = {}
    /\ DOMAIN tracked = {}

\* ========================================================= nonce width claims
\* C32: nonce advancement is saturating in both executors: when an account's
\* nonce and the transaction's nonce both equal the maximum u64 value,
\* processing the valid transaction leaves the account nonce at that maximum
\* and records processed_nonces[pk] = that maximum, with no overflow,
\* wrap-around to 0 or abort.
C32_NonceSaturates ==
    [][/\ (/\ TakesTransaction
           /\ applied'.tx.public_key \in DOMAIN builders
           /\ builders[applied'.tx.public_key].nonce = U64_MAX
           /\ applied'.tx.nonce = U64_MAX
           /\ ~Rejected(applied'.tx.instruction.proposal)) =>
             /\ applied'.prepared
             /\ applied'.propose.kind # "none"
             /\ builders'[applied'.tx.public_key].nonce = U64_MAX
             /\ (halted' = "no" /\ applied'.propose.kind = "Ok") =>
                   /\ applied'.tx.public_key \in DOMAIN processed_nonces'
                   /\ processed_nonces'[applied'.tx.public_key] = U64_MAX
       /\ \A tx \in SaturateSwarmTransactions :
            (/\ ExecutesLayer(tx)
             /\ ValidTransfer(tx)
             /\ tx.nonce = U64_MAX
             /\ TotalBread(adb) <= U64_MAX) =>
               /\ swarm_halted' = "no"
               /\ swarm_call'.valid
               /\ ViewAccount(tx.public_key)'.nonce = U64_MAX
               /\ tx.public_key \in DOMAIN layer_processed_nonces'
               /\ layer_processed_nonces'[tx.public_key] = U64_MAX]_vars

====
